---------------------------- MODULE Spec2Model ----------------------------
(***************************************************************************)
(* A model of tools/main.py of rtp2httpd: the multicast UDP replay tool.   *)
(*                                                                         *)
(*   - the pure helpers (is_rtp_packet, patch_rtp_sequence, the /proc      *)
(*     address decoding and the subnet test) as operators, computed the    *)
(*     way the code computes them (shifts, masks, byte lists);             *)
(*   - IGMPMonitor.run as the action MonitorPoll;                          *)
(*   - replay_loop as a state machine over its program positions.          *)
(*                                                                         *)
(* Time is counted in milliseconds.  A payload is a sequence of bytes, an  *)
(* IPv4 address a sequence of four octets.                                 *)
(***************************************************************************)
EXTENDS Integers, Sequences, FiniteSets, TLC

VARIABLES
    \* ---- configuration (the arguments of replay_loop)
    loss_rate, reorder_rate, speed, continuous,
    \* ---- what is exercised: "main", or one component on its own
    unit,
    \* ---- what main() finds: the capture file, the loader, the socket setup
    env,
    \* ---- the process: main.py:737-806
    exit_code,            \* what main() returned to sys.exit; -1: not returned
    monitor_started,      \* igmp_monitor.start() was called
    sock_open,            \* the multicast socket exists and is not closed
    \* ---- IGMPMonitor
    groups,               \* IGMPMonitor.groups: the fixed (legacy) addresses
    mon_subnets,          \* IGMPMonitor.subnets
    on_join,              \* IGMPMonitor.on_join: "none", or what the callback does
    mon_pc,               \* position of the monitor thread in its loop
    last_note,            \* per address, the kind of the last join/leave note
                          \* (history kept for the stand-alone monitor)
    polls_after_stop,     \* subnet polls completed since stop() was called
    group_flags,          \* is_set() of the Event of every fixed address
    flag_events,          \* the Join/Leave lines of the last fixed-address check
    flag_reads,           \* what that check read of /proc/net/igmp, per address
    proc_net_igmp,        \* the content of /proc/net/igmp read by the last poll
    active_groups,        \* IGMPMonitor._active_groups
    events,               \* the Join/Leave notifications of the last poll
    running,              \* IGMPMonitor.running
    \* ---- replay_loop
    pc,                   \* position of the engine
    loop_count, i, next_target_refresh,
    targets, target_list, current_targets,
    reorder_buffer,
    elapsed,              \* monotonic() - loop_start, in ms
    stream_seq_offsets,
    total_packets_sent, total_packets_dropped, total_packets_reordered,
    packets_this_loop, dropped_this_loop, reordered_this_loop,
    \* ---- history of the pass in progress (not read by the engine)
    pass_log,             \* the sendto calls of the pass, in order
    record_fate,          \* per processed record: what the engine did with it
    total_bytes_sent,     \* main.py:398
    interval_packets,     \* main.py:453: packets counted for the throughput report
    slept,                \* the argument of the record's sleep call; 0: no call
    drew_loss,            \* random_fn was called for a loss decision
    drew_reorder,         \* random_fn was called for a reorder decision
    last_stats_age,       \* ms from the last throughput report to loop_start, capped
    stats_reports,        \* throughput reports printed since the history was reset
    send_errors,          \* sendto calls that raised OSError
    targets_private,      \* the set `targets` is bound to is the engine's own
    \* ---- a call of patch_rtp_sequence
    patch_in, patch_off, patch_out, patch_done,
    \* ---- a call of is_ip_in_subnet
    subnet_in, subnet_out

cfg_vars == <<loss_rate, reorder_rate, speed, continuous, unit, groups,
              mon_subnets, on_join, env>>
mon_vars == <<proc_net_igmp, active_groups, events, running, mon_pc,
              group_flags, flag_events, flag_reads, polls_after_stop,
              last_note>>
eng_rest == <<pc, loop_count, i, next_target_refresh, target_list,
              current_targets, reorder_buffer, elapsed, stream_seq_offsets,
              total_packets_sent, total_packets_dropped,
              total_packets_reordered, packets_this_loop, dropped_this_loop,
              reordered_this_loop, pass_log, record_fate, send_errors,
              targets_private, last_stats_age, stats_reports, drew_loss,
              drew_reorder, slept, total_bytes_sent, interval_packets>>
eng_vars == <<targets, eng_rest>>
patch_vars == <<patch_in, patch_off, patch_out, patch_done>>
call_vars == <<patch_vars, subnet_in, subnet_out>>
main_vars == <<exit_code, monitor_started, sock_open>>
vars == <<cfg_vars, mon_vars, eng_vars, call_vars, main_vars>>

---------------------------------------------------------------------------
(* Bounds of the model.                                                    *)

\* records in the capture
NumPackets == 4
\* passes the engine may start
MaxLoops == 2
\* the clock runs ahead of the schedule only up to this many ms into a pass
MaxElapsed == 5
\* The code refreshes its targets every 500 records (next_target_refresh,
\* main.py:520 and :536/:589).  The model keeps the mechanism and scales the
\* interval so that a refresh happens inside a capture of NumPackets records.
RefreshEvery == 2
\* The code reports its throughput when 5 s have passed since the last
\* report (stats_interval, main.py:452).  The model keeps the mechanism and
\* scales the interval to 5 ms, so that a pass of the capture outlasts it.
StatsInterval == 5

---------------------------------------------------------------------------
(* Integer bit operations, as Python computes them on non-negative ints.   *)

RECURSIVE BitAnd(_, _)
BitAnd(a, b) ==
    IF a = 0 \/ b = 0 THEN 0
    ELSE (a % 2) * (b % 2) + 2 * BitAnd(a \div 2, b \div 2)

RECURSIVE BitOr(_, _)
BitOr(a, b) ==
    IF a = 0 THEN b
    ELSE IF b = 0 THEN a
    ELSE (IF a % 2 = 1 \/ b % 2 = 1 THEN 1 ELSE 0) + 2 * BitOr(a \div 2, b \div 2)

RECURSIVE Pow2(_)
Pow2(n) == IF n = 0 THEN 1 ELSE 2 * Pow2(n - 1)

Shl(a, n) == a * Pow2(n)
Shr(a, n) == a \div Pow2(n)

---------------------------------------------------------------------------
(* Sequence Continuity Patcher: main.py:24-49.  Python indexes bytes from  *)
(* 0, a TLA+ sequence from 1: payload[k] of the code is B(payload, k).     *)

B(payload, k) == payload[k + 1]

\* minimum length of an RTP header
RtpMinLen == 12
\* 0xC0: the version bits of byte 0
VersionMask == 192
\* 0x80: version 2
Version2 == 128
\* 0xFFFF
SeqMask == 65535
\* 0xFF
ByteMask == 255

is_rtp_packet(payload) ==
    Len(payload) >= RtpMinLen /\ BitAnd(B(payload, 0), VersionMask) = Version2

\* the patch with the carry into byte 2 forgotten: only byte 3 is rewritten
patch_rtp_sequence_lowbyte(payload, seq_offset) ==
    IF ~is_rtp_packet(payload) THEN payload
    ELSE [payload EXCEPT ![4] = BitAnd(B(payload, 3) + seq_offset, ByteMask)]

\* the patch with the mask 0x7FFF in place of 0xFFFF
patch_rtp_sequence_mask15(payload, seq_offset) ==
    IF ~is_rtp_packet(payload) THEN payload
    ELSE LET orig_seq == BitOr(Shl(B(payload, 2), 8), B(payload, 3))
             new_seq  == BitAnd(orig_seq + seq_offset, 32767)
         IN  [payload EXCEPT ![3] = BitAnd(Shr(new_seq, 8), ByteMask),
                             ![4] = BitAnd(new_seq, ByteMask)]

\* the patch without the is_rtp_packet test: bytes 2-3 of every payload
\* that has them are rewritten
patch_rtp_sequence_unchecked(payload, seq_offset) ==
    IF Len(payload) < 4 THEN payload
    ELSE LET orig_seq == BitOr(Shl(B(payload, 2), 8), B(payload, 3))
             new_seq  == BitAnd(orig_seq + seq_offset, SeqMask)
         IN  [payload EXCEPT ![3] = BitAnd(Shr(new_seq, 8), ByteMask),
                             ![4] = BitAnd(new_seq, ByteMask)]

patch_rtp_sequence(payload, seq_offset) ==
    IF ~is_rtp_packet(payload) THEN payload
    ELSE LET orig_seq == BitOr(Shl(B(payload, 2), 8), B(payload, 3))
             new_seq  == BitAnd(orig_seq + seq_offset, SeqMask)
         IN  [payload EXCEPT ![3] = BitAnd(Shr(new_seq, 8), ByteMask),
                             ![4] = BitAnd(new_seq, ByteMask)]

\* the big-endian 16-bit value at bytes 2-3
SeqOf(payload) == B(payload, 2) * 256 + B(payload, 3)

---------------------------------------------------------------------------
(* The capture: the list load_packets returns (main.py:118-155), one       *)
(* PacketInfo per record.  Record k of the code (from 0) is Packets[k+1].  *)
(* Ports 5000 and 5002 carry RTP; port 5000 also carries a non-RTP (FEC)   *)
(* payload; the RTP sequence numbers start at 65535, so they wrap.         *)

Filler(k, j) == (16 * k + j) % 256

RtpPayload(k) ==
    LET s == (65535 + k) % 65536
    IN  <<128, 33, s \div 256, s % 256>> \o [j \in 1..8 |-> Filler(k, j)]

\* byte 0 = 0x40: version 1, not an RTP packet for is_rtp_packet
FecPayload(k) == <<64, 33, 255, 255>> \o [j \in 1..8 |-> Filler(k, j)]

\* version bits of RTP but shorter than a header: not an RTP packet either
ShortPayload(k) == <<128, 33, 255, 255>>

PacketInfo(k) ==
    [timestamp |-> 1000 + (IF k = 0 THEN 0 ELSE 4 * (k - 1)),
     payload   |-> CASE k % 5 = 1 -> FecPayload(k)
                     [] k % 5 = 4 -> ShortPayload(k)
                     [] OTHER     -> RtpPayload(k),
     dst_addr  |-> IF k % 2 = 0 THEN <<239, 81, 0, 5>> ELSE <<239, 81, 0, 200>>,
     dst_port  |-> IF k % 5 \in {2, 4} THEN 5002 ELSE 5000]

Packets == [k \in 1..NumPackets |-> PacketInfo(k - 1)]

num_packets == Len(Packets)

\* main.py:406
packet_data(k) == <<Packets[k + 1].payload, Packets[k + 1].dst_port>>

\* main.py:402-403, in whole milliseconds
base_ts == Packets[1].timestamp
relative_times(k, spd) == (Packets[k + 1].timestamp - base_ts) \div spd

\* main.py:419
pcap_ports == {Packets[k].dst_port : k \in 1..NumPackets}

\* main.py:409-416: the ports that carry RTP and their RTP records per pass
RtpPorts == {Packets[k].dst_port : k \in {n \in 1..NumPackets : is_rtp_packet(Packets[n].payload)}}

stream_rtp_counts ==
    [p \in RtpPorts |->
        Cardinality({k \in 1..NumPackets :
                        Packets[k].dst_port = p /\ is_rtp_packet(Packets[k].payload)})]

---------------------------------------------------------------------------
(* Addresses, subnets and /proc/net/igmp: main.py:158-257.                 *)
(* A row of the table is the list of the byte values of its four hex       *)
(* pairs, in file order (reversed); a pair that is no hex number is -1.    *)

\* main.py:158-162
ip_to_proc_format(ip) == <<ip[4], ip[3], ip[2], ip[1]>>

\* main.py:165-174
proc_format_to_ip(hex_str) == <<hex_str[4], hex_str[3], hex_str[2], hex_str[1]>>

(* The 32-bit values of the subnet test exceed the integers of the model   *)
(* checker, so an address value is kept as its list of bits, most          *)
(* significant first; shifts and masks act on the bit lists.               *)

Bits8(o) == [n \in 1..8 |-> (o \div Pow2(8 - n)) % 2]

RECURSIVE BitsValue(_)
BitsValue(w) == IF w = <<>> THEN 0 ELSE 2 * BitsValue(SubSeq(w, 1, Len(w) - 1)) + w[Len(w)]

\* a << n
ShlBits(w, n) == w \o [k \in 1..n |-> 0]

\* a >> n
ShrBits(w, n) == SubSeq(w, 1, Len(w) - n)

\* a & b, for b no longer than a: the result has b's width
AndBits(a, b) == [k \in 1..Len(b) |-> a[Len(a) - Len(b) + k] * b[k]]

\* 0xFFFFFFFF
AllOnes == [k \in 1..32 |-> 1]
\* 0xFF
ByteOnes == [k \in 1..8 |-> 1]

\* (o[0] << 24) | (o[1] << 16) | (o[2] << 8) | o[3], for octets below 256
ip_int(o) == Bits8(o[1]) \o Bits8(o[2]) \o Bits8(o[3]) \o Bits8(o[4])

\* (0xFFFFFFFF << (32 - prefix_len)) & 0xFFFFFFFF
prefix_mask(prefix_len) == AndBits(ShlBits(AllOnes, 32 - prefix_len), AllOnes)

\* main.py:189-204
get_subnet_for_ip(ip, prefix_len) ==
    LET net_int == AndBits(ip_int(ip), prefix_mask(prefix_len))
    IN  [net |-> <<BitsValue(AndBits(ShrBits(net_int, 24), ByteOnes)),
                   BitsValue(AndBits(ShrBits(net_int, 16), ByteOnes)),
                   BitsValue(AndBits(ShrBits(net_int, 8), ByteOnes)),
                   BitsValue(AndBits(net_int, ByteOnes))>>,
         prefix_len |-> prefix_len]

\* the subnet test with the network address left unmasked
is_ip_in_subnet_rawnet(ip, subnet) ==
    LET mask == prefix_mask(subnet.prefix_len)
    IN  AndBits(ip_int(ip), mask) = ip_int(subnet.net)

\* main.py:207-226
is_ip_in_subnet(ip, subnet) ==
    LET mask == prefix_mask(subnet.prefix_len)
    IN  AndBits(ip_int(ip), mask) = AndBits(ip_int(subnet.net), mask)

\* a row whose address get_igmp_joined_groups can decode: 8 hex digits
RowParses(row) == Len(row) = 4 /\ \A n \in 1..4 : row[n] \in 0..255

\* the scan without the subnet test
get_igmp_joined_groups_nofilter(table, subnets) ==
    IF ~table.readable THEN {}
    ELSE {proc_format_to_ip(row) : row \in {r \in table.rows : RowParses(r)}}

\* main.py:229-257; an unreadable file (IOError) yields the empty set
get_igmp_joined_groups(table, subnets) ==
    IF ~table.readable THEN {}
    ELSE {proc_format_to_ip(row) :
            row \in {r \in table.rows :
                        /\ RowParses(r)
                        /\ \E sn \in subnets : is_ip_in_subnet(proc_format_to_ip(r), sn)}}

\* main.py:767-770: the /24 of every destination address of the capture
DefaultPrefixLen == 24
Subnets == {get_subnet_for_ip(Packets[k].dst_addr, DefaultPrefixLen) : k \in 1..NumPackets}

\* groups that receivers may join
G1 == <<239, 81, 0, 5>>
G2 == <<239, 81, 0, 200>>
GOut == <<239, 82, 0, 200>>

\* rows that are no group address: too short, and not hexadecimal
BadRows == {<<5, 0, 81>>, <<-1, 0, 81, 239>>}

\* the contents of /proc/net/igmp a poll may find
Table(rows) == [readable |-> TRUE, rows |-> rows]
Unreadable == [readable |-> FALSE, rows |-> {}]

KernelTables ==
    { Table({}),
      Table({ip_to_proc_format(G1)}),
      Table({ip_to_proc_format(G1), ip_to_proc_format(G2), ip_to_proc_format(GOut)}
               \cup BadRows),
      Unreadable }

\* what a poll computes from each table (evaluated once)
JoinedOf == [t \in KernelTables |-> get_igmp_joined_groups(t, Subnets)]

\* a Python set iterated in some order: any fixed order will do here
RECURSIVE SetToSeq(_)
SetToSeq(S) ==
    IF S = {} THEN <<>>
    ELSE LET x == CHOOSE y \in S : TRUE IN <<x>> \o SetToSeq(S \ {x})

---------------------------------------------------------------------------
(* IGMPMonitor: main.py:296-370.  main() starts it in subnet mode with no  *)
(* fixed groups and no callbacks; a notification is the printed line.      *)

\* main.py:364-367: a copy of the set, taken under the lock
get_active_groups == active_groups

Notes(kind, S) == [n \in 1..Cardinality(S) |-> <<kind, SetToSeq(S)[n]>>]

\* the poll forgets to store the snapshot it diffed against
StoreSnapshot_stale(current_joined) == active_groups

\* main.py:360
StoreSnapshot(current_joined) == current_joined

\* `target in content`: the hex form occurs somewhere in a row of the file
Contains(row, target) ==
    \E k \in 0..(Len(row) - Len(target)) : SubSeq(row, k + 1, k + Len(target)) = target

\* an IOError of the membership check read as "joined"
check_igmp_membership_errtrue(table, group_addr) ==
    IF ~table.readable THEN TRUE
    ELSE \E row \in table.rows : Contains(row, ip_to_proc_format(group_addr))

\* main.py:177-186
check_igmp_membership(table, group_addr) ==
    IF ~table.readable THEN FALSE
    ELSE \E row \in table.rows : Contains(row, ip_to_proc_format(group_addr))

\* the fixed-address check printing a line for every address, changed or not
FlagNotes_every(old, new) ==
    Notes("join", {a \in DOMAIN new : new[a]})
        \o Notes("leave", {a \in DOMAIN new : ~new[a]})

\* main.py:336-341: the lines printed when a flag changes
FlagNotes(old, new) ==
    LET joined == {a \in DOMAIN new : new[a] /\ ~old[a]}
        left   == {a \in DOMAIN new : ~new[a] /\ old[a]}
    IN  Notes("join", joined) \o Notes("leave", left)

\* the threads of the process exist: main() has not returned
ProcessAlive == pc \notin {"exited", "stopped", "crashed"}

\* main.py:329-341: an iteration of the polling loop begins (`while
\* self.running`) and checks the fixed addresses, each with a read of its own
\* main.py:329 `while self.running:`
LoopContinues_always == TRUE

LoopContinues == running

MonitorBegin ==
    /\ mon_pc = "sleep"
    /\ LoopContinues
    /\ ProcessAlive
    /\ \E reads \in [groups -> KernelTables] :
          LET is_joined == [a \in groups |-> check_igmp_membership(reads[a], a)]
          IN  /\ group_flags' = is_joined
              /\ flag_events' = FlagNotes(group_flags, is_joined)
              /\ flag_reads' = reads
    /\ mon_pc' = IF mon_subnets = {} THEN "sleep" ELSE "poll"
    /\ UNCHANGED <<proc_net_igmp, active_groups, events, running,
                   polls_after_stop, last_note>>
    /\ UNCHANGED <<cfg_vars, eng_vars, call_vars, main_vars>>

\* main.py:345-351 and 364-367: on_join is called inside `with self._lock`.
\* A callback that calls get_active_groups asks for the same lock, a
\* threading.Lock (317), which its own thread cannot take twice: it waits
\* for ever.
CallbackBlocks(new_joins) == on_join = "get_active_groups" /\ new_joins # {}

\* main.py:342-362: the subnet part of one iteration: the kernel table is
\* read (343); under the lock the joins and leaves are printed, the
\* callbacks run and the new set is stored (345-360); then the thread
\* sleeps 50 ms (362).  When the join callback blocks, the thread stays in
\* it, holding the lock, after the first join line was printed.
\* the addresses a poll can report
NoteAddrs == {G1, G2, GOut}

\* the kind of the last note of every address once `notes` were emitted
NotedKinds(notes) ==
    [a \in NoteAddrs |->
        LET at == {n \in 1..Len(notes) : notes[n][2] = a}
        IN  IF at = {} THEN last_note[a]
            ELSE notes[CHOOSE n \in at : \A m \in at : m <= n][1]]

\* every address found is announced as joined at every poll
NewJoins_all(current_joined) == current_joined

\* main.py:347
NewJoins(current_joined) == current_joined \ active_groups

\* the monitor's store changing in place the set object the engine holds
HeldSet_inplace(stored) == stored

\* main.py:360, 367: what the engine's `targets` shows once the monitor has
\* stored a poll result: the store binds the attribute to a new set and the
\* getter handed out a copy, so the set the engine holds keeps its content
HeldSet(stored) == targets

MonitorPoll ==
    /\ mon_pc = "poll"
    /\ ProcessAlive
    /\ \E table \in KernelTables :
          LET current_joined == IF mon_subnets = Subnets THEN JoinedOf[table]
                                ELSE get_igmp_joined_groups(table, mon_subnets)
              new_joins == NewJoins(current_joined)
              leaves    == active_groups \ current_joined
          IN  /\ proc_net_igmp' = table
              /\ IF CallbackBlocks(new_joins)
                 THEN /\ \E a \in new_joins : events' = <<<<"join", a>>>>
                      /\ active_groups' = active_groups
                      /\ mon_pc' = "blocked"
                 ELSE /\ events' = Notes("join", new_joins) \o Notes("leave", leaves)
                      /\ active_groups' = StoreSnapshot(current_joined)
                      /\ mon_pc' = "sleep"
    /\ polls_after_stop' = polls_after_stop + (IF running THEN 0 ELSE 1)
    /\ last_note' = (IF unit = "monitor" THEN NotedKinds(events') ELSE last_note)
    /\ targets' = HeldSet(active_groups')
    /\ UNCHANGED <<running, group_flags, flag_events, flag_reads>>
    /\ UNCHANGED <<cfg_vars, eng_rest, call_vars, main_vars>>

\* main.py:369-370, IGMPMonitor.stop() called by the monitor's owner
MonitorStop ==
    /\ unit = "monitor"
    /\ running
    /\ running' = FALSE
    /\ UNCHANGED <<proc_net_igmp, active_groups, events, mon_pc, group_flags,
                   flag_events, flag_reads, polls_after_stop,
                   last_note>>
    /\ UNCHANGED <<cfg_vars, eng_vars, call_vars, main_vars>>

---------------------------------------------------------------------------
(* replay_loop: main.py:373-734.                                           *)

\* main.py:469-472: the monitor's set in subnet mode (what main() uses),
\* else the addresses of group_events whose flag is set
get_target_addresses ==
    IF mon_subnets # {}
    THEN get_active_groups
    ELSE {addr \in groups : group_flags[addr]}

\* get_active_groups handing out the monitor's own set object
GetterCopies_alias == FALSE

\* main.py:367: `.copy()`: the caller receives a set object of its own
GetterCopies == TRUE

\* main.py:478: `if not targets`
NoTargets_never(S) == FALSE

NoTargets(S) == S = {}

\* main.py:464: random_fn() * 100 for random() in [0, 1)
Draws == {0, 99}

\* main.py:482 and 713: the sleeps of the idle branch and between passes, in ms
IdleSleepLen == 100
PauseLen == 3000

\* main.py:673: the age of the last throughput report at `now` ms of the
\* pass (now - last_stats_time), kept up to the interval
StatsAge(now) ==
    IF last_stats_age + now >= StatsInterval THEN StatsInterval ELSE last_stats_age + now

\* main.py:673
StatsDue(now) == StatsAge(now) >= StatsInterval

\* main.py:628: random.uniform(0.001, 0.01), in ms
DelayMin == 1
DelayMax == 10
Delays == {DelayMin, DelayMax}

\* the delays drawn in a run: both ends of the range where every record is
\* delayed, the short one where the fate of a record is itself drawn
DelaysNow == IF loss_rate > 0 THEN {DelayMin} ELSE Delays

\* main.py:543, 598: waits of at most 1 ms are not slept
SleepThreshold == 1

\* time that may pass between two readings of the clock, in ms
Jitters == {0, 5}

\* main.py:523-524
\* a loss check made at every rate
use_loss_always == TRUE

use_loss == loss_rate > 0
use_reorder == reorder_rate > 0

\* one sendto call, as the pass history keeps it
SendOp(payload, addr, port, idx, via) ==
    [payload |-> payload, addr |-> addr, port |-> port, idx |-> idx, via |-> via]

\* a buffered entry sent to the targets in force now, not to its own
EntrySends_current(e, via) ==
    [n \in 1..Len(target_list) |-> SendOp(e.payload, target_list[n], e.port, e.idx, via)]

\* the sendto calls that send one reorder-buffer entry to its targets
EntrySends(e, via) ==
    [n \in 1..Len(e.targets) |-> SendOp(e.payload, e.targets[n], e.port, e.idx, via)]

RECURSIVE BufferSends(_, _)
BufferSends(buf, via) ==
    IF buf = <<>> THEN <<>>
    ELSE EntrySends(Head(buf), via) \o BufferSends(Tail(buf), via)

\* a byte count that adds one per send
SendBytes_one(sends) == Len(sends)

\* main.py:553-574, 612, 644-665, 691: len(payload) added for every sendto
RECURSIVE SendBytes(_)
SendBytes(sends) ==
    IF sends = <<>> THEN 0 ELSE Len(Head(sends).payload) + SendBytes(Tail(sends))

\* main.py:546-550 and 637-641
OutPayload(payload, port) ==
    IF continuous /\ port \in DOMAIN stream_seq_offsets
    THEN IF stream_seq_offsets[port] > 0
         THEN patch_rtp_sequence(payload, stream_seq_offsets[port])
         ELSE payload
    ELSE payload

\* the two-target branch with its second sendto forgotten
DirectSends_first(payload, port, tl, idx) ==
    [n \in 1..(IF Len(tl) = 2 THEN 1 ELSE Len(tl)) |->
        SendOp(payload, tl[n], port, idx, "direct")]

\* main.py:552-576 and 643-667: the sendto calls of one record
DirectSends(payload, port, tl, idx) ==
    [n \in 1..Len(tl) |-> SendOp(payload, tl[n], port, idx, "direct")]

\* main.py:394-458: the locals of replay_loop before its loop
EngineInit ==
    /\ loop_count = 0
    /\ i = 0
    /\ next_target_refresh = 0
    /\ targets = {}
    /\ target_list = <<>>
    /\ current_targets = {}
    /\ reorder_buffer = <<>>
    /\ elapsed = 0
    /\ stream_seq_offsets = [p \in RtpPorts |-> 0]
    /\ total_packets_sent = 0
    /\ total_packets_dropped = 0
    /\ total_packets_reordered = 0
    /\ packets_this_loop = 0
    /\ dropped_this_loop = 0
    /\ reordered_this_loop = 0
    /\ pass_log = <<>>
    /\ record_fate = <<>>
    /\ send_errors = 0
    /\ targets_private = TRUE
    /\ last_stats_age = 0
    /\ stats_reports = 0
    /\ drew_loss = FALSE
    /\ drew_reorder = FALSE
    /\ slept = 0
    /\ total_bytes_sent = 0
    /\ interval_packets = 0

\* main.py:304-318
MonitorInit ==
    /\ proc_net_igmp = Table({})
    /\ active_groups = {}
    /\ events = <<>>
    /\ mon_pc = "sleep"
    /\ group_flags = [a \in groups |-> FALSE]
    /\ flag_events = <<>>
    /\ flag_reads = [a \in groups |-> Table({})]
    /\ polls_after_stop = 0
    /\ last_note = [a \in NoteAddrs |-> "none"]

PatchIdle ==
    /\ patch_in = <<>>
    /\ patch_off = 0
    /\ patch_out = <<>>
    /\ patch_done = FALSE

Subnet(net, prefix_len) == [net |-> net, prefix_len |-> prefix_len]

SubnetIdle ==
    /\ subnet_in = [ip |-> <<0, 0, 0, 0>>, subnet |-> Subnet(<<0, 0, 0, 0>>, 0)]
    /\ subnet_out = "none"

\* what main() may find
Env(file_exists, load, socket) ==
    [file_exists |-> file_exists, load |-> load, socket |-> socket]
EnvOk == Env(TRUE, "ok", "ok")
Envs == {Env(f, l, k) : f \in BOOLEAN, l \in {"ok", "raises", "empty"},
                        k \in {"ok", "oserror"}}

\* no process: a component is exercised on its own
NoProcess ==
    /\ env = EnvOk
    /\ exit_code = -1
    /\ sock_open = FALSE

Config(loss, reorder, spd, cont) ==
    [loss_rate |-> loss, reorder_rate |-> reorder, speed |-> spd, continuous |-> cont]

\* main.py:745-755: percentages in [0, 100], speed > 0.  The runs explored:
Configs ==
    { Config(0, 0, 1, FALSE),
      Config(0, 0, 2, TRUE),
      Config(100, 0, 1, FALSE),
      Config(100, 50, 2, TRUE),
      Config(0, 100, 1, TRUE),
      Config(50, 50, 1, FALSE) }

\* The bound on the passes of a run.  A run that delays every record is
\* followed through its first pass and one pass under non-zero offsets; a
\* run that draws the fate of every record at random, or drops every record
\* of a capture it would also reorder, through its first pass only, and so
\* is a run in fixed-set mode.
PassLimit ==
    IF unit = "main" /\ loss_rate \in {0, 100} /\ reorder_rate = 0
    THEN MaxLoops
    ELSE IF unit = "main" /\ loss_rate = 0 /\ reorder_rate = 100
    THEN (IF MaxLoops < 2 THEN MaxLoops ELSE 2)
    ELSE 1

\* arguments that main.py:745-755 refuses
BadConfigs ==
    { Config(-1, 0, 1, FALSE),
      Config(101, 0, 1, FALSE),
      Config(0, -1, 1, FALSE),
      Config(0, 101, 1, TRUE),
      Config(0, 0, 0, FALSE),
      Config(0, 0, -1, TRUE),
      Config(101, 101, 0, FALSE) }

\* the invocations of main(): every valid run in a sound environment, and
\* some arguments, valid and not, in every environment
Invocations ==
    {[cfg |-> c, env |-> EnvOk] : c \in Configs}
    \cup {[cfg |-> c, env |-> e] : c \in BadConfigs \cup {Config(0, 0, 1, FALSE)},
                                   e \in Envs}

\* main() is entered: main.py:737-739.  No monitor and no socket exist yet.
RunInit ==
    /\ \E v \in Invocations :
          /\ loss_rate = v.cfg.loss_rate
          /\ reorder_rate = v.cfg.reorder_rate
          /\ speed = v.cfg.speed
          /\ continuous = v.cfg.continuous
          /\ env = v.env
    /\ unit = "main"
    /\ groups = {}
    /\ mon_subnets = Subnets
    /\ on_join = "none"
    /\ MonitorInit
    /\ running = FALSE
    /\ monitor_started = FALSE
    /\ sock_open = FALSE
    /\ exit_code = -1
    /\ EngineInit
    /\ pc = "main"
    /\ PatchIdle
    /\ SubnetIdle

\* the checks of main() with a socket failure let through
StartupError_nosocket ==
    IF ~env.file_exists THEN "file"
    ELSE IF ~(0 <= loss_rate /\ loss_rate <= 100) THEN "loss"
    ELSE IF ~(0 <= reorder_rate /\ reorder_rate <= 100) THEN "reorder"
    ELSE IF speed <= 0 THEN "speed"
    ELSE IF env.load = "raises" THEN "load"
    ELSE IF env.load = "empty" THEN "nopackets"
    ELSE "none"

\* main.py:741-785: the first check of main() that fails, in code order
StartupError ==
    IF ~env.file_exists THEN "file"
    ELSE IF ~(0 <= loss_rate /\ loss_rate <= 100) THEN "loss"
    ELSE IF ~(0 <= reorder_rate /\ reorder_rate <= 100) THEN "reorder"
    ELSE IF speed <= 0 THEN "speed"
    ELSE IF env.load = "raises" THEN "load"
    ELSE IF env.load = "empty" THEN "nopackets"
    ELSE IF env.socket # "ok" THEN "socket"
    ELSE "none"

\* main.py:781-785: `return 1` lies outside the try/finally of 787-800, so
\* the monitor started at 779 is not told to stop
MonitorLeftRunning == StartupError = "socket"

\* main.py:737-797: main() up to the loop of replay_loop, or to `return 1`
MainStartup ==
    /\ pc = "main"
    /\ monitor_started' = (StartupError \in {"socket", "none"})
    /\ running' = (StartupError = "none" \/ MonitorLeftRunning)
    /\ sock_open' = (StartupError = "none")
    /\ IF StartupError = "none"
       THEN pc' = "check" /\ exit_code' = exit_code
       ELSE pc' = "exited" /\ exit_code' = 1
    /\ UNCHANGED <<proc_net_igmp, active_groups, events, mon_pc, group_flags,
                   flag_events, flag_reads, polls_after_stop,
                   last_note>>
    /\ UNCHANGED <<loop_count, i, next_target_refresh, targets, target_list,
                   current_targets, reorder_buffer, elapsed, stream_seq_offsets,
                   total_packets_sent, total_packets_dropped,
                   total_packets_reordered, packets_this_loop,
                   dropped_this_loop, reordered_this_loop, pass_log, record_fate,
                   send_errors, targets_private>>
    /\ UNCHANGED <<cfg_vars, call_vars>>
    /\ UNCHANGED <<last_stats_age, stats_reports>>
    /\ UNCHANGED <<drew_loss, drew_reorder, slept, total_bytes_sent,
                   interval_packets>>

(* A call of patch_rtp_sequence on its own: no run is in progress (pc is   *)
(* "off"), the payload and the offset are the inputs.                      *)

PatchTemplate(b0, hi, lo) == <<b0, 33, hi, lo>> \o [j \in 1..9 |-> Filler(3, j)]

PatchPayloads ==
    { SubSeq(PatchTemplate(b0, hi, lo), 1, len) :
        b0 \in {0, 64, 127, 128, 191, 192, 255},
        hi \in {0, 127, 255},
        lo \in {0, 1, 254, 255},
        len \in {1, 4, 11, 12, 13} }

PatchOffsets == {0, 1, 2, 255, 256, 65535, 65536, 65537, 131072}

PatchInit ==
    /\ patch_in \in PatchPayloads
    /\ patch_off \in PatchOffsets
    /\ patch_out = <<>>
    /\ patch_done = FALSE
    /\ loss_rate = 0 /\ reorder_rate = 0 /\ speed = 1 /\ continuous = FALSE
    /\ unit = "patch"
    /\ groups = {}
    /\ mon_subnets = {}
    /\ on_join = "none"
    /\ MonitorInit
    /\ running = FALSE
    /\ monitor_started = FALSE
    /\ NoProcess
    /\ EngineInit
    /\ pc = "off"
    /\ SubnetIdle

(* A call of is_ip_in_subnet on its own, for every prefix length.          *)

SubnetIps ==
    { <<239, 81, 0, 200>>, <<239, 82, 0, 200>>, <<239, 81, 0, 0>>, <<239, 81, 1, 200>>,
      <<111, 81, 0, 200>>, <<238, 81, 0, 200>>, <<239, 81, 0, 201>>,
      <<0, 0, 0, 0>>, <<255, 255, 255, 255>> }

SubnetNets ==
    { <<239, 81, 0, 0>>, <<239, 82, 0, 0>>, <<239, 81, 0, 200>>, <<0, 0, 0, 0>>,
      <<255, 255, 255, 255>>, <<128, 0, 0, 0>> }

SubnetInit ==
    /\ subnet_in \in [ip : SubnetIps,
                      subnet : {Subnet(n, l) : n \in SubnetNets, l \in 0..32}]
    /\ subnet_out = "none"
    /\ unit = "subnet"
    /\ loss_rate = 0 /\ reorder_rate = 0 /\ speed = 1 /\ continuous = FALSE
    /\ groups = {}
    /\ mon_subnets = {}
    /\ on_join = "none"
    /\ MonitorInit
    /\ running = FALSE
    /\ monitor_started = FALSE
    /\ NoProcess
    /\ EngineInit
    /\ pc = "off"
    /\ PatchIdle

(* An IGMPMonitor on its own, constructed with fixed addresses, subnets or *)
(* both (main.py:304-318); no engine runs.                                 *)

MonitorSetups ==
    { [groups |-> {G1, GOut}, subnets |-> {}, on_join |-> "none"],
      [groups |-> {G1, GOut}, subnets |-> Subnets, on_join |-> "none"],
      [groups |-> {}, subnets |-> Subnets, on_join |-> "none"],
      [groups |-> {}, subnets |-> Subnets, on_join |-> "get_active_groups"] }

MonitorOnlyInit ==
    /\ \E m \in MonitorSetups :
          groups = m.groups /\ mon_subnets = m.subnets /\ on_join = m.on_join
    /\ unit = "monitor"
    /\ loss_rate = 0 /\ reorder_rate = 0 /\ speed = 1 /\ continuous = FALSE
    /\ MonitorInit
    /\ running = TRUE
    /\ monitor_started = TRUE
    /\ NoProcess
    /\ EngineInit
    /\ pc = "off"
    /\ PatchIdle
    /\ SubnetIdle

\* replay_loop called with group_events and a monitor of fixed addresses
\* (main.py:373-382, 469-472): the flags of the capture's two destinations.
\* The caller has the socket open and the monitor running.
LegacyRunInit ==
    /\ loss_rate = 0 /\ reorder_rate = 0 /\ speed = 1 /\ continuous = FALSE
    /\ env = EnvOk
    /\ unit = "legacy"
    /\ groups = {Packets[k].dst_addr : k \in 1..NumPackets}
    /\ mon_subnets = {}
    /\ on_join = "none"
    /\ MonitorInit
    /\ running = TRUE
    /\ monitor_started = TRUE
    /\ sock_open = TRUE
    /\ exit_code = -1
    /\ EngineInit
    /\ pc = "check"
    /\ PatchIdle
    /\ SubnetIdle

Init ==
    \/ RunInit
    \/ LegacyRunInit
    \/ PatchInit
    \/ SubnetInit
    \/ MonitorOnlyInit

\* main.py:207-226: the call returns
SubnetCall ==
    /\ unit = "subnet"
    /\ subnet_out = "none"
    /\ subnet_out' = IF is_ip_in_subnet(subnet_in.ip, subnet_in.subnet) THEN "in" ELSE "out"
    /\ UNCHANGED <<subnet_in, patch_vars>>
    /\ UNCHANGED <<cfg_vars, mon_vars, eng_vars, main_vars>>

\* main.py:29-49: the call returns
PatchCall ==
    /\ unit = "patch"
    /\ ~patch_done
    /\ patch_out' = patch_rtp_sequence(patch_in, patch_off)
    /\ patch_done' = TRUE
    /\ UNCHANGED <<patch_in, patch_off, subnet_in, subnet_out>>
    /\ UNCHANGED <<cfg_vars, mon_vars, eng_vars, main_vars>>

\* main.py:476-483: no destination joined
EngineIdle ==
    /\ pc = "check"
    /\ NoTargets(get_target_addresses)
    /\ targets' = {}
    /\ current_targets' = {}
    /\ pc' = "idle"
    /\ pass_log' = <<>>
    /\ record_fate' = <<>>
    /\ UNCHANGED send_errors
    /\ targets_private' = GetterCopies
    /\ UNCHANGED <<loop_count, i, next_target_refresh, target_list,
                   reorder_buffer, elapsed, stream_seq_offsets,
                   total_packets_sent, total_packets_dropped,
                   total_packets_reordered, packets_this_loop,
                   dropped_this_loop, reordered_this_loop>>
    /\ UNCHANGED <<cfg_vars, mon_vars, call_vars, main_vars>>
    /\ stats_reports' = 0
    /\ UNCHANGED last_stats_age
    /\ UNCHANGED <<drew_loss, drew_reorder, slept, total_bytes_sent,
                   interval_packets>>

\* main.py:482-483: sleep(0.1); continue
IdleSleep ==
    /\ pc = "idle"
    /\ pc' = "check"
    /\ UNCHANGED <<send_errors, targets_private>>
    /\ UNCHANGED <<loop_count, i, next_target_refresh, targets, target_list,
                   current_targets, reorder_buffer, elapsed, stream_seq_offsets,
                   total_packets_sent, total_packets_dropped,
                   total_packets_reordered, packets_this_loop,
                   dropped_this_loop, reordered_this_loop, pass_log, record_fate>>
    /\ UNCHANGED <<cfg_vars, mon_vars, call_vars, main_vars>>
    /\ last_stats_age' = StatsAge(IdleSleepLen)
    /\ UNCHANGED stats_reports
    /\ UNCHANGED <<drew_loss, drew_reorder, slept, total_bytes_sent,
                   interval_packets>>

\* main.py:476, 485-524: a pass starts
StartPass ==
    /\ pc = "check"
    /\ ~NoTargets(get_target_addresses)
    /\ loop_count < PassLimit
    /\ targets' = get_target_addresses
    /\ current_targets' = get_target_addresses
    /\ loop_count' = loop_count + 1
    /\ elapsed' = 0
    /\ packets_this_loop' = 0
    /\ dropped_this_loop' = 0
    /\ reordered_this_loop' = 0
    /\ target_list' = SetToSeq(get_target_addresses)
    /\ reorder_buffer' = <<>>
    /\ i' = 0
    /\ next_target_refresh' = RefreshEvery
    /\ pass_log' = <<>>
    /\ record_fate' = <<>>
    /\ pc' = "record"
    /\ UNCHANGED send_errors
    /\ targets_private' = GetterCopies
    /\ UNCHANGED <<stream_seq_offsets, total_packets_sent,
                   total_packets_dropped, total_packets_reordered>>
    /\ UNCHANGED <<cfg_vars, mon_vars, call_vars, main_vars>>
    /\ stats_reports' = 0
    /\ UNCHANGED last_stats_age
    /\ UNCHANGED <<drew_loss, drew_reorder>>
    /\ slept' = 0
    /\ UNCHANGED <<total_bytes_sent, interval_packets>>

\* a refresh before every record
Refreshing_always == TRUE

\* main.py:530-536 and 583-589: the targets in force for record i
Refreshing == i >= next_target_refresh
RefreshBreaks == Refreshing /\ get_target_addresses = {}
TargetsNow == IF Refreshing THEN get_target_addresses ELSE targets
TargetListNow == IF Refreshing THEN SetToSeq(get_target_addresses) ELSE target_list
NextRefreshNow_next == IF i >= next_target_refresh THEN i + 1 ELSE next_target_refresh

NextRefreshNow == IF Refreshing THEN i + RefreshEvery ELSE next_target_refresh
PrivateNow == IF Refreshing THEN GetterCopies ELSE targets_private

\* main.py:541-544 and 594-600: the clock after the timing step, given the
\* reading now0 of monotonic() - loop_start
\* a sleep call for every computed wait, positive or not
Sleeps_always(now0) == TRUE

\* main.py:541-542 and 594-596
wait_time(now0) == relative_times(i, speed) - now0

\* main.py:543 and 598: `if wait_time > 0.001`
Sleeps(now0) == wait_time(now0) > SleepThreshold

\* the argument of sleep(), 0 when it is not called
SleepFor(now0) == IF Sleeps(now0) THEN wait_time(now0) ELSE 0

AfterWait(now0) ==
    IF Sleeps(now0) THEN now0 + wait_time(now0) ELSE now0

\* main.py:609
\* a release loop that does not look at the release time
Due_always(entry, now) == TRUE

\* main.py:609 `if now >= buf_time`
Due(entry, now) == now >= entry.time

\* the loss test off by one percent
IsDropped_offbyone(r) == use_loss /\ r < loss_rate - 1

\* main.py:620
IsDropped(r) == use_loss /\ r < loss_rate

\* main.py:627
IsDelayed(r) == use_reorder /\ r < reorder_rate

\* the reorder check made before the loss check
FateOf_reorderfirst(r1, r2) ==
    IF IsDelayed(r2) THEN "delayed"
    ELSE IF IsDropped(r1) THEN "dropped"
    ELSE "sent"

\* main.py:619-635: the loss check, then the reorder check, each ending the
\* iteration with `continue`; a record that passes both is sent
FateOf(r1, r2) ==
    IF IsDropped(r1) THEN "dropped"
    ELSE IF IsDelayed(r2) THEN "delayed"
    ELSE "sent"

\* main.py:629-631: the entry appended for record i (idx: which record it is)
BufferEntry(payload, port, time, tl) ==
    [payload |-> payload, port |-> port, time |-> time, targets |-> tl, idx |-> i]

Fate(kind, tl) == [kind |-> kind, targets |-> tl]

\* main.py:530-533 and 583-586: the refresh finds no destination
RefreshBreak ==
    /\ pc = "record"
    /\ RefreshBreaks
    /\ targets' = {}
    /\ pc' = "flush"
    /\ UNCHANGED send_errors
    /\ targets_private' = GetterCopies
    /\ UNCHANGED <<loop_count, i, next_target_refresh, target_list,
                   current_targets, reorder_buffer, elapsed, stream_seq_offsets,
                   total_packets_sent, total_packets_dropped,
                   total_packets_reordered, packets_this_loop,
                   dropped_this_loop, reordered_this_loop, pass_log, record_fate>>
    /\ UNCHANGED <<cfg_vars, mon_vars, call_vars, main_vars>>
    /\ UNCHANGED <<last_stats_age, stats_reports>>
    /\ UNCHANGED <<drew_loss, drew_reorder, slept, total_bytes_sent,
                   interval_packets>>

\* where the engine goes after record i
AfterRecord == IF i + 1 < num_packets THEN "record" ELSE "flush"

\* main.py:526-578: one record on the fast path
FastRecord ==
    /\ pc = "record"
    /\ ~use_loss /\ ~use_reorder
    /\ ~RefreshBreaks
    /\ \E d \in Jitters :
          /\ d = 0 \/ elapsed + d <= MaxElapsed
          /\ LET payload == packet_data(i)[1]
                 port    == packet_data(i)[2]
                 sends   == DirectSends(OutPayload(payload, port), port, TargetListNow, i)
             IN  /\ elapsed' = AfterWait(elapsed + d)
                 /\ slept' = SleepFor(elapsed + d)
                 /\ pass_log' = pass_log \o sends
                 /\ total_packets_sent' = total_packets_sent + Len(TargetListNow)
                 /\ total_bytes_sent' = total_bytes_sent + SendBytes(sends)
                 /\ interval_packets' = interval_packets + Len(TargetListNow)
                 /\ packets_this_loop' = packets_this_loop + Len(TargetListNow)
                 /\ record_fate' = Append(record_fate, Fate("sent", TargetListNow))
    /\ targets' = TargetsNow
    /\ target_list' = TargetListNow
    /\ next_target_refresh' = NextRefreshNow
    /\ i' = i + 1
    /\ pc' = AfterRecord
    /\ UNCHANGED send_errors
    /\ targets_private' = PrivateNow
    /\ UNCHANGED <<loop_count, current_targets, reorder_buffer,
                   stream_seq_offsets, total_packets_dropped,
                   total_packets_reordered, dropped_this_loop, reordered_this_loop>>
    /\ UNCHANGED <<cfg_vars, mon_vars, call_vars, main_vars>>
    /\ UNCHANGED <<last_stats_age, stats_reports>>
    /\ UNCHANGED <<drew_loss, drew_reorder>>

\* main.py:581-669: one record on the slow path
SlowRecord ==
    /\ pc = "record"
    /\ use_loss \/ use_reorder
    /\ ~RefreshBreaks
    /\ \E d \in Jitters, r1 \in Draws, r2 \in Draws, delay \in DelaysNow :
          /\ d = 0 \/ elapsed + d <= MaxElapsed
          /\ LET payload  == packet_data(i)[1]
                 port     == packet_data(i)[2]
                 now      == AfterWait(elapsed + d)
                 released == SelectSeq(reorder_buffer, LAMBDA e : Due(e, now))
                 kept     == SelectSeq(reorder_buffer, LAMBDA e : ~Due(e, now))
                 relsends == BufferSends(released, "release")
                 dropped  == FateOf(r1, r2) = "dropped"
                 delayed  == FateOf(r1, r2) = "delayed"
                 sends    == DirectSends(OutPayload(payload, port), port, TargetListNow, i)
             IN  /\ elapsed' = now
                 /\ slept' = SleepFor(elapsed + d)
                 /\ drew_loss' = (drew_loss \/ use_loss)
                 /\ drew_reorder' = (drew_reorder \/ (use_reorder /\ ~dropped))
                 /\ IF dropped
                    THEN /\ pass_log' = pass_log \o relsends
                         /\ reorder_buffer' = kept
                         /\ total_packets_sent' = total_packets_sent + Len(relsends)
                         /\ total_bytes_sent' = total_bytes_sent + SendBytes(relsends)
                         /\ UNCHANGED interval_packets
                         /\ packets_this_loop' = packets_this_loop + Len(relsends)
                         /\ total_packets_dropped' = total_packets_dropped + 1
                         /\ dropped_this_loop' = dropped_this_loop + 1
                         /\ record_fate' = Append(record_fate, Fate("dropped", TargetListNow))
                         /\ UNCHANGED <<total_packets_reordered, reordered_this_loop>>
                    ELSE IF delayed
                    THEN /\ pass_log' = pass_log \o relsends
                         /\ reorder_buffer' =
                               Append(kept, BufferEntry(payload, port, now + delay, TargetListNow))
                         /\ total_packets_sent' = total_packets_sent + Len(relsends)
                         /\ total_bytes_sent' = total_bytes_sent + SendBytes(relsends)
                         /\ UNCHANGED interval_packets
                         /\ packets_this_loop' = packets_this_loop + Len(relsends)
                         /\ total_packets_reordered' = total_packets_reordered + 1
                         /\ reordered_this_loop' = reordered_this_loop + 1
                         /\ record_fate' = Append(record_fate, Fate("delayed", TargetListNow))
                         /\ UNCHANGED <<total_packets_dropped, dropped_this_loop>>
                    ELSE /\ pass_log' = pass_log \o relsends \o sends
                         /\ reorder_buffer' = kept
                         /\ total_packets_sent' =
                               total_packets_sent + Len(relsends) + Len(TargetListNow)
                         /\ total_bytes_sent' =
                               total_bytes_sent + SendBytes(relsends) + SendBytes(sends)
                         /\ interval_packets' = interval_packets + Len(TargetListNow)
                         /\ packets_this_loop' =
                               packets_this_loop + Len(relsends) + Len(TargetListNow)
                         /\ record_fate' = Append(record_fate, Fate("sent", TargetListNow))
                         /\ UNCHANGED <<total_packets_dropped, dropped_this_loop,
                                        total_packets_reordered, reordered_this_loop>>
    /\ targets' = TargetsNow
    /\ target_list' = TargetListNow
    /\ next_target_refresh' = NextRefreshNow
    /\ i' = i + 1
    /\ pc' = AfterRecord
    /\ UNCHANGED send_errors
    /\ targets_private' = PrivateNow
    /\ UNCHANGED <<loop_count, current_targets, stream_seq_offsets>>
    /\ UNCHANGED <<cfg_vars, mon_vars, call_vars, main_vars>>
    /\ UNCHANGED <<last_stats_age, stats_reports>>

\* an accumulation that counts every record of the port, RTP or not
AccumulateOffsets_allrecords ==
    [p \in DOMAIN stream_seq_offsets |->
        stream_seq_offsets[p]
          + Cardinality({n \in 1..NumPackets : Packets[n].dst_port = p})]

\* an accumulation by what the pass sent directly instead of the capture's count
AccumulateOffsets_sent ==
    [p \in DOMAIN stream_seq_offsets |->
        stream_seq_offsets[p]
          + Cardinality({n \in 1..Len(record_fate) :
                           /\ record_fate[n].kind = "sent"
                           /\ Packets[n].dst_port = p
                           /\ is_rtp_packet(Packets[n].payload)})]

\* main.py:707-709
AccumulateOffsets ==
    [p \in DOMAIN stream_seq_offsets |-> stream_seq_offsets[p] + stream_rtp_counts[p]]

\* offsets accumulated at the end of a pass in every mode
OffsetsAfterPass_anymode == AccumulateOffsets

\* main.py:707-709: `if continuous:`
OffsetsAfterPass == IF continuous THEN AccumulateOffsets ELSE stream_seq_offsets

\* a pass end that goes straight to the next check in every mode
AfterPass_nopause == "check"

\* main.py:707-713: continuous mode goes on at once, standard mode sleeps 3 s
AfterPass == IF continuous THEN "check" ELSE "pause"

\* main.py:687-693
FlushSends == BufferSends(reorder_buffer, "flush")

\* main.py:671-713: the end of a pass (the throughput report is a print).
\* The flush loop leaves the list as it is, and nothing reads it again: the
\* next pass binds a new list (main.py:517).  The model drops the flushed
\* entries here, so that a non-empty buffer always holds unsent packets.
PassEnd ==
    /\ pc = "flush"
    /\ pass_log' = pass_log \o FlushSends
    /\ reorder_buffer' = <<>>
    /\ total_packets_sent' = total_packets_sent + Len(FlushSends)
    /\ packets_this_loop' = packets_this_loop + Len(FlushSends)
    /\ stream_seq_offsets' = OffsetsAfterPass
    /\ pc' = AfterPass
    /\ UNCHANGED <<send_errors, targets_private>>
    /\ UNCHANGED <<loop_count, i, next_target_refresh, targets, target_list,
                   current_targets, elapsed,
                   total_packets_dropped, total_packets_reordered,
                   dropped_this_loop, reordered_this_loop, record_fate>>
    /\ UNCHANGED <<cfg_vars, mon_vars, call_vars, main_vars>>
    /\ last_stats_age' = (IF StatsDue(elapsed) THEN 0 ELSE StatsAge(elapsed))
    /\ stats_reports' = stats_reports + (IF StatsDue(elapsed) THEN 1 ELSE 0)
    /\ UNCHANGED <<drew_loss, drew_reorder>>
    /\ slept' = 0
    /\ total_bytes_sent' = total_bytes_sent + SendBytes(FlushSends)
    /\ interval_packets' = (IF StatsDue(elapsed) THEN 0 ELSE interval_packets)

\* main.py:713: sleep(3.0), then the top of the loop
PauseDone ==
    /\ pc = "pause"
    /\ pc' = "check"
    /\ pass_log' = <<>>
    /\ record_fate' = <<>>
    /\ UNCHANGED <<send_errors, targets_private>>
    /\ UNCHANGED <<loop_count, i, next_target_refresh, targets, target_list,
                   current_targets, reorder_buffer, elapsed, stream_seq_offsets,
                   total_packets_sent, total_packets_dropped,
                   total_packets_reordered, packets_this_loop,
                   dropped_this_loop, reordered_this_loop>>
    /\ UNCHANGED <<cfg_vars, mon_vars, call_vars, main_vars>>
    /\ last_stats_age' = StatsAge(PauseLen)
    /\ stats_reports' = 0
    /\ UNCHANGED <<drew_loss, drew_reorder, slept, total_bytes_sent,
                   interval_packets>>

\* the positions inside the try block of main.py:474-716
InTry == pc \in {"check", "idle", "record", "flush", "pause"}

\* main.py:715-734 and 798-802: KeyboardInterrupt between two steps of the
\* engine; replay_loop prints the totals and returns, and main's finally
\* calls igmp_monitor.stop()
Interrupt ==
    /\ InTry
    /\ pc' = "stopped"
    /\ running' = FALSE
    /\ UNCHANGED <<send_errors, targets_private>>
    /\ UNCHANGED <<proc_net_igmp, active_groups, events, mon_pc,
                   group_flags, flag_events, flag_reads, polls_after_stop,
                   last_note>>
    /\ UNCHANGED <<loop_count, i, next_target_refresh, targets, target_list,
                   current_targets, reorder_buffer, elapsed, stream_seq_offsets,
                   total_packets_sent, total_packets_dropped,
                   total_packets_reordered, packets_this_loop,
                   dropped_this_loop, reordered_this_loop, pass_log, record_fate>>
    /\ exit_code' = 0
    /\ sock_open' = FALSE
    /\ UNCHANGED <<cfg_vars, call_vars, monitor_started>>
    /\ UNCHANGED <<last_stats_age, stats_reports>>
    /\ UNCHANGED <<drew_loss, drew_reorder, slept, total_bytes_sent,
                   interval_packets>>

\* main.py:552-576 and 715-716: KeyboardInterrupt inside the sends of record
\* i on the fast path, after `cut` of them; the counters are added after the
\* sendto calls, so the interrupted batch is not counted
InterruptInBatch ==
    /\ pc = "record"
    /\ ~use_loss /\ ~use_reorder
    /\ ~RefreshBreaks
    /\ \E cut \in 1..Len(TargetListNow) :
          LET payload == packet_data(i)[1]
              port    == packet_data(i)[2]
              sends   == DirectSends(OutPayload(payload, port), port, TargetListNow, i)
          IN  pass_log' = pass_log \o SubSeq(sends, 1, cut)
    /\ targets' = TargetsNow
    /\ target_list' = TargetListNow
    /\ next_target_refresh' = NextRefreshNow
    /\ targets_private' = PrivateNow
    /\ UNCHANGED send_errors
    /\ pc' = "stopped"
    /\ running' = FALSE
    /\ UNCHANGED <<proc_net_igmp, active_groups, events, mon_pc,
                   group_flags, flag_events, flag_reads, polls_after_stop,
                   last_note>>
    /\ UNCHANGED <<loop_count, i, current_targets, reorder_buffer, elapsed,
                   stream_seq_offsets, total_packets_sent, total_packets_dropped,
                   total_packets_reordered, packets_this_loop,
                   dropped_this_loop, reordered_this_loop, record_fate>>
    /\ exit_code' = 0
    /\ sock_open' = FALSE
    /\ UNCHANGED <<cfg_vars, call_vars, monitor_started>>
    /\ UNCHANGED <<last_stats_age, stats_reports>>
    /\ UNCHANGED <<drew_loss, drew_reorder, slept, total_bytes_sent,
                   interval_packets>>

\* main.py:552-576, 715-716 and 798-806: a sendto of record i raises OSError
\* after `cut` sendto calls of the batch went through.  replay_loop catches
\* KeyboardInterrupt only: the error leaves replay_loop, main's finally stops
\* the monitor and closes the socket, and the process ends with a traceback
\* (exit status 1).
SendError ==
    /\ pc = "record"
    /\ ~use_loss /\ ~use_reorder
    /\ ~RefreshBreaks
    /\ \E cut \in 0..(Len(TargetListNow) - 1) :
          LET payload == packet_data(i)[1]
              port    == packet_data(i)[2]
              sends   == DirectSends(OutPayload(payload, port), port, TargetListNow, i)
          IN  pass_log' = pass_log \o SubSeq(sends, 1, cut)
    /\ send_errors' = send_errors + 1
    /\ targets' = TargetsNow
    /\ target_list' = TargetListNow
    /\ next_target_refresh' = NextRefreshNow
    /\ targets_private' = PrivateNow
    /\ pc' = "crashed"
    /\ running' = FALSE
    /\ exit_code' = 1
    /\ sock_open' = FALSE
    /\ UNCHANGED <<proc_net_igmp, active_groups, events, mon_pc,
                   group_flags, flag_events, flag_reads, polls_after_stop,
                   last_note>>
    /\ UNCHANGED <<loop_count, i, current_targets, reorder_buffer, elapsed,
                   stream_seq_offsets, total_packets_sent, total_packets_dropped,
                   total_packets_reordered, packets_this_loop,
                   dropped_this_loop, reordered_this_loop, record_fate>>
    /\ UNCHANGED <<cfg_vars, call_vars, monitor_started>>
    /\ UNCHANGED <<last_stats_age, stats_reports>>
    /\ UNCHANGED <<drew_loss, drew_reorder, slept, total_bytes_sent,
                   interval_packets>>

Next ==
    \/ MainStartup
    \/ SubnetCall
    \/ SendError
    \/ MonitorBegin
    \/ MonitorPoll
    \/ MonitorStop
    \/ EngineIdle
    \/ IdleSleep
    \/ StartPass
    \/ RefreshBreak
    \/ FastRecord
    \/ SlowRecord
    \/ PassEnd
    \/ PauseDone
    \/ Interrupt
    \/ InterruptInBatch
    \/ PatchCall

Spec == Init /\ [][Next]_vars

---------------------------------------------------------------------------
(* Properties.                                                             *)

Range(f) == {f[n] : n \in DOMAIN f}

\* a run of the engine (not a lone call of the patcher)
InRun == pc # "off"

\* within a pass: after StartPass, before PassEnd
InPass == pc \in {"record", "flush"}

\* the pass history still describes the last pass started
captured(idx) == Packets[idx + 1].payload

\* what a log entry says was sent: which record, where to
Pairs(log) == [n \in 1..Len(log) |-> <<log[n].idx, log[n].addr, log[n].port>>]

\* the sends that record_fate asks for when every record is sent directly:
\* record n-1 once to each target then in force, in record order
RECURSIVE FatePairs(_, _)
FatePairs(fates, n) ==
    IF n > Len(fates) THEN <<>>
    ELSE [m \in 1..Len(fates[n].targets) |->
             <<n - 1, fates[n].targets[m], Packets[n].dst_port>>]
         \o FatePairs(fates, n + 1)

NoRepeat(seq) == \A a, b \in 1..Len(seq) : a # b => seq[a] # seq[b]

C2_Loss100NothingSent ==
    (InRun /\ loss_rate = 100) =>
        /\ pass_log = <<>>
        /\ total_packets_sent = 0
        /\ packets_this_loop = 0
        /\ reorder_buffer = <<>>
        /\ total_packets_reordered = 0
        /\ \A n \in 1..Len(record_fate) : record_fate[n].kind = "dropped"
        /\ InPass => dropped_this_loop = i /\ Len(record_fate) = i
        /\ total_packets_dropped >= dropped_this_loop
        /\ (pc = "flush" /\ i = num_packets) =>
              dropped_this_loop = num_packets

\* C2 witness: a complete pass at loss rate 100 with two destinations
\* joined and a non-zero reorder rate
C2_Witness ==
    /\ loss_rate = 100 /\ reorder_rate > 0
    /\ pc = "flush" /\ i = num_packets
    /\ Len(target_list) = 2
    /\ dropped_this_loop = num_packets

\* the sends of the pass that came out of the reorder buffer for record idx
BufferedSendsOf(idx, addr) ==
    {n \in 1..Len(pass_log) :
        /\ pass_log[n].idx = idx
        /\ pass_log[n].addr = addr
        /\ pass_log[n].via \in {"release", "flush"}}

\* C3 (as claimed): once the engine has left a pass - at its normal end, at
\* an early end, or by a user interrupt - every record that was placed in
\* the reorder buffer during the pass has been sent to each of its captured
\* targets.
C3_NoDelayedPacketLost ==
    (InRun /\ ~InPass) =>
        \A n \in 1..Len(record_fate) :
            record_fate[n].kind = "delayed" =>
                \A t \in Range(record_fate[n].targets) :
                    BufferedSendsOf(n - 1, t) # {}

\* C4: in continuous mode the offset of every RTP port is (N-1)*C while
\* pass N is in progress and N*C once pass N has ended, with C the port's
\* RTP records per pass; idling between passes leaves it alone.
C4_OffsetAtPassStart ==
    (InRun /\ continuous /\ pc \notin {"stopped", "crashed"}) =>
        /\ DOMAIN stream_seq_offsets = RtpPorts
        /\ \A p \in RtpPorts :
              stream_seq_offsets[p] =
                 (IF InPass THEN loop_count - 1 ELSE loop_count) * stream_rtp_counts[p]

\* C4 witness: the second pass of a continuous run has begun
C4_Witness ==
    /\ continuous
    /\ pc = "record" /\ i = 0
    /\ loop_count = 2
    /\ \E p \in RtpPorts : stream_seq_offsets[p] = 2

\* a step that ends a pass of a continuous run
ContinuousPassEnd == pc = "flush" /\ pc' = "check" /\ continuous

\* the RTP records of port p that the pass sent (directly or from the buffer)
RtpRecordsSent(log, p) ==
    {idx \in 0..(NumPackets - 1) :
        /\ packet_data(idx)[2] = p
        /\ is_rtp_packet(captured(idx))
        /\ \E n \in 1..Len(log) : log[n].idx = idx}

\* C5 (as claimed): at the end of a pass the offset of each port grows by
\* the number of RTP packets sent on that port during the pass.
C5_OffsetGrowsBySent ==
    [][ContinuousPassEnd =>
          \A p \in RtpPorts :
              stream_seq_offsets'[p] =
                 stream_seq_offsets[p] + Cardinality(RtpRecordsSent(pass_log', p))]_vars

\* C5 (amended): at the end of a pass of a continuous run the offset of each
\* RTP port grows by the number of RTP records the capture holds for that
\* port, whatever the pass sent, dropped, delayed or left unprocessed; in
\* standard mode the offsets do not change.
C5_OffsetGrowsByCaptureCount ==
    [][/\ ContinuousPassEnd =>
            \A p \in RtpPorts :
                stream_seq_offsets'[p] = stream_seq_offsets[p] + stream_rtp_counts[p]
       /\ ~ContinuousPassEnd => stream_seq_offsets' = stream_seq_offsets]_vars

\* C5 witness: a continuous pass has ended that sent fewer RTP records on a
\* port than the capture holds, and the offset is the capture's count
C5_Witness ==
    /\ continuous
    /\ pc = "check" /\ loop_count = 1 /\ record_fate # <<>>
    /\ \E p \in RtpPorts :
          /\ Cardinality(RtpRecordsSent(pass_log, p)) < stream_rtp_counts[p]
          /\ stream_seq_offsets[p] = stream_rtp_counts[p]

\* C6 (as claimed): in a pass of a continuous run whose port offset is
\* non-zero, every RTP payload sent - directly, on release or at the flush -
\* carries the captured sequence number plus the offset, modulo 65536.
C6_EverySendPatched ==
    (InRun /\ continuous /\ InPass) =>
        \A n \in 1..Len(pass_log) :
            LET e == pass_log[n] IN
            (is_rtp_packet(captured(e.idx)) /\ stream_seq_offsets[e.port] > 0) =>
                SeqOf(e.payload) =
                    (SeqOf(captured(e.idx)) + stream_seq_offsets[e.port]) % 65536

\* C7: for every payload recognised as RTP and every offset,
\* patch_rtp_sequence returns a payload of the same length whose bytes 2-3
\* hold (sequence + offset) mod 65536, big-endian, and whose other bytes are
\* those of the input.
C7_PatchAddsOffset ==
    (patch_done /\ is_rtp_packet(patch_in)) =>
        /\ Len(patch_out) = Len(patch_in)
        /\ patch_out[3] * 256 + patch_out[4] =
              (patch_in[3] * 256 + patch_in[4] + patch_off) % 65536
        /\ patch_out[3] \in 0..255
        /\ patch_out[4] \in 0..255
        /\ \A n \in 1..Len(patch_in) : n \notin {3, 4} => patch_out[n] = patch_in[n]

\* C7 witness: sequence 65535 patched with offset 1 gives sequence 0
C7_Witness ==
    /\ patch_done
    /\ is_rtp_packet(patch_in)
    /\ patch_in[3] = 255 /\ patch_in[4] = 255
    /\ patch_off = 1
    /\ patch_out[3] = 0 /\ patch_out[4] = 0

\* C8: with offset 0, or any multiple of 65536, patch_rtp_sequence returns
\* its input, for every payload.
C8_IdentityOffset ==
    (patch_done /\ patch_off % 65536 = 0) => patch_out = patch_in

\* C8 witness: an RTP payload patched with the non-zero multiple 131072
C8_Witness ==
    /\ patch_done
    /\ is_rtp_packet(patch_in)
    /\ patch_in[3] = 127 /\ patch_in[4] = 254
    /\ patch_off = 131072
    /\ patch_out = patch_in

\* not RTP, said without is_rtp_packet: too short, or version bits not 2
NotTransport(payload) ==
    \/ Len(payload) < 12
    \/ payload[1] \div 64 # 2

\* C9: a payload that is not RTP is returned as it is by patch_rtp_sequence
\* for every offset, and every send of a non-RTP record in continuous mode
\* carries the captured bytes, whatever the offset of its port.
C9_NonRtpUntouched ==
    /\ (patch_done /\ NotTransport(patch_in)) => patch_out = patch_in
    /\ (InRun /\ continuous) =>
          \A n \in 1..Len(pass_log) :
              NotTransport(captured(pass_log[n].idx)) =>
                  pass_log[n].payload = captured(pass_log[n].idx)

\* C9 witness: in a pass whose port offset is non-zero a non-RTP record was
\* sent on a port that also carries RTP records
C9_Witness ==
    /\ continuous /\ InPass
    /\ \E n \in 1..Len(pass_log) :
          LET e == pass_log[n] IN
          /\ NotTransport(captured(e.idx))
          /\ Len(e.payload) >= 12
          /\ e.port \in RtpPorts
          /\ stream_seq_offsets[e.port] > 0
          /\ e.payload = captured(e.idx)

\* the addresses that receivers, or the monitor, may name
Addresses == {G1, G2, GOut} \cup active_groups

\* the nameable addresses that lie in a monitored subnet
InSubnet == {a \in {G1, G2, GOut} : \E sn \in Subnets : is_ip_in_subnet(a, sn)}

\* address a is listed in the kernel's table and lies in a monitored subnet
InKernelSnapshot(table, a) ==
    /\ table.readable
    /\ ip_to_proc_format(a) \in table.rows
    /\ a \in InSubnet

Count(seq, x) == Cardinality({n \in 1..Len(seq) : seq[n] = x})

\* C10: a poll that finds an in-subnet address in the kernel's table that
\* the stored snapshot lacks emits one join note for it and stores it, so
\* get_active_groups returns it from then on; a poll that no longer finds a
\* stored address emits one leave note and removes it; for any other
\* address the poll emits nothing and leaves the stored set as it was.
\* Steps other than a poll do not change what get_active_groups returns.
C10_PollJoinLeave ==
    [][ IF \/ <<proc_net_igmp, events, active_groups>>' = <<proc_net_igmp, events, active_groups>>
           \/ mon_pc' = "blocked"
        THEN get_active_groups' = get_active_groups
        ELSE \A a \in Addresses \cup active_groups' :
               LET seen == InKernelSnapshot(proc_net_igmp', a)
                   had  == a \in get_active_groups
               IN  /\ (seen /\ ~had) =>
                        /\ Count(events', <<"join", a>>) = 1
                        /\ Count(events', <<"leave", a>>) = 0
                        /\ a \in get_active_groups'
                   /\ (had /\ ~seen) =>
                        /\ Count(events', <<"leave", a>>) = 1
                        /\ Count(events', <<"join", a>>) = 0
                        /\ a \notin get_active_groups'
                   /\ (seen <=> had) =>
                        /\ Count(events', <<"join", a>>) = 0
                        /\ Count(events', <<"leave", a>>) = 0
                        /\ (a \in get_active_groups') <=> had ]_vars

\* C10 witness: after G1 and G2 were joined, a poll found G2 gone: it noted
\* the leave and get_active_groups holds G1 only
C10_Witness ==
    /\ events = << <<"leave", G2>> >>
    /\ get_active_groups = {G1}
    /\ InKernelSnapshot(proc_net_igmp, G1)
    /\ ~InKernelSnapshot(proc_net_igmp, G2)

\* inside the /24 of a destination address of the capture, said on octets
InConfiguredSubnet(a) ==
    /\ Len(a) = 4
    /\ \A n \in 1..4 : a[n] \in 0..255
    /\ \E k \in 1..NumPackets : \A n \in 1..3 : a[n] = Packets[k].dst_addr[n]

\* C11: the set of currently joined addresses holds only addresses inside a
\* configured subnet, whatever rows the kernel table holds.
C11_JoinedSetInsideSubnets ==
    \A a \in get_active_groups : mon_subnets # {} /\ InConfiguredSubnet(a)

\* C11 witness: the last poll read a table with an in-subnet group, a group
\* outside the subnets and rows that are no address, and stored the in-subnet
\* groups
C11_Witness ==
    /\ mon_pc = "sleep"
    /\ ip_to_proc_format(GOut) \in proc_net_igmp.rows
    /\ BadRows \subseteq proc_net_igmp.rows
    /\ get_active_groups = {G1, G2}

\* bit k (1 = most significant) of the 32-bit value of an address
BitOfAddr(a, k) == (a[((k - 1) \div 8) + 1] \div Pow2(7 - ((k - 1) % 8))) % 2

\* the top n bits of two addresses agree
SamePrefix(a, b, n) == \A k \in 1..n : BitOfAddr(a, k) = BitOfAddr(b, k)

\* C12: is_ip_in_subnet(ip, net/prefix) is true exactly when ip and net agree
\* on their top `prefix` bits, for every prefix length from 0 to 32: prefix 0
\* holds every address, prefix 32 the address itself only.
C12_SubnetContainment ==
    subnet_out # "none" =>
        LET ip  == subnet_in.ip
            net == subnet_in.subnet.net
            len == subnet_in.subnet.prefix_len
        IN  /\ (subnet_out = "in") <=> SamePrefix(ip, net, len)
            /\ len = 0 => subnet_out = "in"
            /\ len = 32 => ((subnet_out = "in") <=> ip = net)

\* C12 witness: 239.81.0.200 was found inside 239.81.0.0/24
C12_Witness ==
    /\ subnet_in = [ip |-> <<239, 81, 0, 200>>, subnet |-> Subnet(<<239, 81, 0, 0>>, 24)]
    /\ subnet_out = "in"

\* the monitor's fixed-address check took a step
FlagCheckStep ==
    /\ mon_pc = "sleep"
    /\ <<mon_pc, group_flags, flag_events, flag_reads>>' # <<mon_pc, group_flags, flag_events, flag_reads>>

\* the monitor's subnet poll took a step
SubnetPollStep == mon_pc = "poll" /\ mon_pc' = "sleep"

PollResult(table) ==
    IF mon_subnets = {} THEN {} ELSE {a \in InSubnet : InKernelSnapshot(table, a)}

\* the engine calls get_active_groups in this step
EngineReads ==
    \/ pc = "check" /\ pc' \in {"idle", "record"}
    \/ pc = "record" /\ Refreshing /\ pc' \in {"record", "flush"} /\ <<pc, i>>' # <<pc, i>>

C15_SendErrorContinues ==
    send_errors > 0 =>
        /\ InTry
        /\ running
        /\ sock_open
        /\ exit_code = -1

\* the sendto calls made so far for the record the engine is at
SendsOfCurrent == {m \in 1..Len(pass_log) : pass_log[m].idx = i /\ pass_log[m].via = "direct"}

\* C16: when the engine has stopped on a user interrupt, the record it was at
\* went to all of its targets or to none, and the counters of the pass hold
\* every send made.  (Violated: the interrupt cuts a batch between two sendto
\* calls, and the counters are added after the batch.)
C16_InterruptFinishesBatch ==
    (pc = "stopped" /\ ~use_loss /\ ~use_reorder /\ pass_log # <<>>) =>
        /\ Cardinality(SendsOfCurrent) \in {0, Len(target_list)}
        /\ packets_this_loop = Len(pass_log)

\* one of the preconditions of a run does not hold
PreconditionFails ==
    \/ ~env.file_exists
    \/ loss_rate < 0 \/ loss_rate > 100
    \/ reorder_rate < 0 \/ reorder_rate > 100
    \/ speed <= 0
    \/ env.load \in {"raises", "empty"}
    \/ env.socket = "oserror"

\* C17: the exit code is 1 for every precondition failure (capture file
\* missing, loss or reorder outside [0, 100], speed <= 0, capture unreadable
\* or without usable packets, socket or interface failure), and 0 when the
\* engine stops on a user interrupt; the start-up ends with an exit only for
\* such a failure.
C17_ExitCodes ==
    (unit = "main" /\ pc # "main") =>
        /\ PreconditionFails <=> pc = "exited"
        /\ pc = "exited" => exit_code = 1
        /\ pc = "stopped" <=> exit_code = 0
        /\ InTry <=> exit_code = -1

\* C17 witness: a run with a capture that holds no usable packet has exited
\* with code 1
C17_Witness ==
    /\ pc = "exited"
    /\ exit_code = 1
    /\ env = Env(TRUE, "empty", "ok")
    /\ loss_rate = 0 /\ reorder_rate = 0 /\ speed = 1

\* C18: a run that ended on a start-up failure leaves nothing active: no
\* socket is open, no packet was sent, a configuration error left the monitor
\* unstarted, and a monitor that was started has been told to stop.
\* (Violated: a socket failure returns with the monitor still running.)
C18_StartupFailureLeavesNothing ==
    pc = "exited" =>
        /\ ~sock_open
        /\ total_packets_sent = 0 /\ pass_log = <<>>
        /\ env.socket = "ok" => ~monitor_started
        /\ monitor_started => ~running

\* the joined set as the engine reads it: the monitor's set in subnet mode,
\* the fixed addresses whose flag is set otherwise
JoinedSet ==
    IF mon_subnets = {} THEN {a \in groups : group_flags[a]} ELSE active_groups

\* no sendto call and no new pass in this step
NoSendNoPass ==
    /\ total_packets_sent' = total_packets_sent
    /\ pass_log' = pass_log \/ pass_log' = <<>>
    /\ loop_count' = loop_count

\* C19: while the pass-start check reads an empty joined set the engine is
\* idle: it sends nothing, starts no pass (the loop count stays), and goes
\* back to the check after its pause; a pass starts only from a check that
\* reads a non-empty set, and its first target list is exactly that set.
C19_IdleUntilJoined ==
    [][ /\ (pc = "check" /\ JoinedSet = {}) =>
              /\ pc' \in {"check", "idle", "stopped"}
              /\ NoSendNoPass
        /\ pc = "idle" =>
              /\ pc' \in {"idle", "check", "stopped"}
              /\ NoSendNoPass
        /\ (pc = "check" /\ JoinedSet # {}) => pc' # "idle"
        /\ (pc \in {"check", "idle"} /\ pc' = "record") =>
              /\ pc = "check"
              /\ JoinedSet # {}
              /\ targets' = JoinedSet
              /\ Range(target_list') = JoinedSet
              /\ Len(target_list') = Cardinality(JoinedSet)
              /\ loop_count' = loop_count + 1
              /\ i' = 0
              /\ pass_log' = <<>> ]_vars

\* C19 witness: a first pass has just started on the set {G1, G2} that the
\* check read; nothing was sent before
C19_Witness ==
    /\ pc = "record"
    /\ i = 0
    /\ loop_count = 1
    /\ total_packets_sent = 0
    /\ pass_log = <<>>
    /\ get_active_groups = {G1, G2}
    /\ targets = {G1, G2}
    /\ Range(target_list) = {G1, G2}

\* this step appended a sendto of record idx to addr, of the given kind
SentInStep(idx, addr, via) ==
    \E m \in (Len(pass_log) + 1)..Len(pass_log') :
        /\ pass_log'[m].idx = idx
        /\ pass_log'[m].addr = addr
        /\ pass_log'[m].via = via

C21_ClearedDestinationSkipped ==
    [][ (/\ mon_subnets = {}
         /\ pc = "record"
         /\ i' = i + 1
         /\ ~group_flags[Packets[i + 1].dst_addr]) =>
            /\ pass_log' = pass_log
            /\ total_packets_sent' = total_packets_sent
            /\ elapsed' = elapsed ]_vars

\* this step made a sendto call
SendsInStep == Len(pass_log') > Len(pass_log) \/ total_packets_sent' # total_packets_sent

\* C22: the end of a pass leads, in standard mode, into the 3-second pause
\* and from there to the check that re-reads the joined set; in continuous
\* mode it leads to that check directly, with no pause.  Nothing is sent in
\* the pause or at the check, and the next pass starts on the set read then.
C22_BetweenPasses ==
    [][ /\ (pc = "flush" /\ pc' \notin {"flush", "stopped"}) =>
              pc' = (IF continuous THEN "check" ELSE "pause")
        /\ continuous => pc' # "pause"
        /\ pc = "pause" =>
              /\ pc' \in {"pause", "check", "stopped"}
              /\ ~SendsInStep
        /\ pc = "check" => ~SendsInStep
        /\ (pc' = "record" /\ pc # "record") =>
              /\ pc = "check"
              /\ targets' = JoinedSet
              /\ Range(target_list') = JoinedSet ]_vars

\* C22 witness: a second pass has started in standard mode: the first pass
\* ended, the engine paused, and the check read {G1} for the new pass
C22_Witness ==
    /\ ~continuous
    /\ unit = "main"
    /\ pc = "record"
    /\ loop_count = 2
    /\ i = 0
    /\ total_packets_sent > 0
    /\ pass_log = <<>>
    /\ targets = {G1}

\* C23: while the engine replays, a throughput report is printed as soon as
\* the interval has passed since the previous report: a step of a pass that
\* takes the clock to the interval or beyond prints one.  (Violated: the
\* report is printed only in the code that ends a pass.)
C23_ReportEveryInterval ==
    [][ (/\ pc = "record"
         /\ i' = i + 1
         /\ last_stats_age + elapsed' >= StatsInterval) =>
            stats_reports' = stats_reports + 1 ]_vars

\* the sendto calls this step made for the delayed record idx, in order
BufferedSendsInStep(idx) ==
    SelectSeq(SubSeq(pass_log', Len(pass_log) + 1, Len(pass_log')),
              LAMBDA op : op.idx = idx /\ op.via \in {"release", "flush"})

\* C24: a delayed packet carries the target list in force when it was put in
\* the reorder buffer; in every step it either stays in the buffer as it is
\* or is sent once to each address of that list, on its own port, and to no
\* other address, whatever the target list has become by a refresh.
C24_DelayedKeepsFanOut ==
    [][ /\ \A n \in 1..Len(reorder_buffer) :
              LET e    == reorder_buffer[n]
                  sent == BufferedSendsInStep(e.idx)
              IN  \/ /\ e \in Range(reorder_buffer')
                     /\ sent = <<>>
                  \/ /\ e \notin Range(reorder_buffer')
                     /\ Len(sent) = Len(e.targets)
                     /\ \A m \in 1..Len(sent) :
                           /\ sent[m].addr = e.targets[m]
                           /\ sent[m].port = e.port
                           /\ sent[m].port = Packets[e.idx + 1].dst_port
        /\ \A e \in Range(reorder_buffer') \ Range(reorder_buffer) :
              /\ e.idx = i
              /\ e.targets = target_list'
              /\ e.port = Packets[i + 1].dst_port ]_vars

\* C24 witness: record 0 was delayed while <<G1>> was the target list; the
\* list has since been refreshed to two targets, and the delayed record went
\* to G1 alone
C24_Witness ==
    /\ Len(record_fate) >= 1
    /\ record_fate[1] = Fate("delayed", <<G1>>)
    /\ Len(target_list) = 2
    /\ \E m \in 1..Len(pass_log) :
          /\ pass_log[m].idx = 0
          /\ pass_log[m].via \in {"release", "flush"}
          /\ pass_log[m].addr = G1
    /\ \A m \in 1..Len(pass_log) : pass_log[m].idx = 0 => pass_log[m].addr = G1

\* C25: a fault check whose rate is 0 is never made.  With loss rate 0 no
\* loss draw is taken, no record is dropped and the dropped counters stay 0,
\* whatever the reorder rate; with reorder rate 0 no reorder draw is taken, no
\* record enters the reorder buffer and the reordered counters stay 0,
\* whatever the loss rate; with both 0 no draw is taken at all.
C25_ZeroRateNeverEvaluated ==
    /\ loss_rate = 0 =>
          /\ ~drew_loss
          /\ total_packets_dropped = 0 /\ dropped_this_loop = 0
          /\ \A n \in 1..Len(record_fate) : record_fate[n].kind # "dropped"
    /\ reorder_rate = 0 =>
          /\ ~drew_reorder
          /\ total_packets_reordered = 0 /\ reordered_this_loop = 0
          /\ reorder_buffer = <<>>
          /\ \A n \in 1..Len(record_fate) : record_fate[n].kind # "delayed"
    /\ (loss_rate = 0 /\ reorder_rate = 0) => ~drew_loss /\ ~drew_reorder

\* C25 witness: a run with loss rate 0 and reorder rate 100 has delayed all
\* the records of a pass on reorder draws, and made no loss draw
C25_Witness ==
    /\ loss_rate = 0
    /\ reorder_rate = 100
    /\ drew_reorder
    /\ ~drew_loss
    /\ Len(record_fate) = num_packets
    /\ total_packets_reordered = num_packets
    /\ total_packets_dropped = 0

\* who holds the monitor's lock between two steps: the critical sections of
\* a completed poll and of get_active_groups lie inside one step
LockHolder == IF mon_pc = "blocked" THEN "monitor" ELSE "none"

\* C26: the monitor's lock is never held across a blocking operation: between
\* any two steps (while a thread sleeps, reads, runs a callback, sends or
\* waits) the lock is free, so that a callback calling get_active_groups does
\* not block for ever.  (Violated: the callbacks run inside the lock.)
C26_LockNeverHeldWhileBlocking ==
    LockHolder = "none"

\* the hexadecimal form of address a, as the kernel prints it, occurs in a
\* row of the table read
ReadShows(table, a) ==
    /\ table.readable
    /\ \E row \in table.rows :
          \E k \in 0..(Len(row) - 4) : \A j \in 1..4 : row[k + j] = a[5 - j]

\* C27: in fixed-address mode every configured address's flag is set exactly
\* when the membership check of the last iteration found the address in the
\* table it read; an iteration prints a join line for an address exactly when
\* its flag went from cleared to set and a leave line exactly when it went
\* from set to cleared; this is so with and without subnets configured.
C27_FlagsFollowChecks ==
    [][ /\ \A a \in groups : group_flags'[a] <=> ReadShows(flag_reads'[a], a)
        /\ FlagCheckStep =>
              /\ \A a \in groups :
                    /\ Count(flag_events', <<"join", a>>) =
                          (IF ~group_flags[a] /\ group_flags'[a] THEN 1 ELSE 0)
                    /\ Count(flag_events', <<"leave", a>>) =
                          (IF group_flags[a] /\ ~group_flags'[a] THEN 1 ELSE 0)
              /\ Len(flag_events') = Cardinality({a \in groups : group_flags'[a] # group_flags[a]})
              /\ mon_pc' = (IF mon_subnets = {} THEN "sleep" ELSE "poll")
        /\ ~FlagCheckStep =>
              <<group_flags, flag_events>>' = <<group_flags, flag_events>> ]_vars

\* C27 witness: with subnets configured as well, an iteration found G1 (flag
\* set, one join line) and not GOut, and the subnet part of the same
\* iteration stored G1
C27_Witness ==
    /\ unit = "monitor"
    /\ mon_subnets # {}
    /\ groups = {G1, GOut}
    /\ mon_pc = "sleep"
    /\ group_flags[G1] /\ ~group_flags[GOut]
    /\ flag_events = <<<<"join", G1>>>>
    /\ get_active_groups = {G1}

\* stop() has been called on a monitor that was started
StopCalled == ~running /\ (unit = "monitor" \/ monitor_started)

\* C28: when the engine's scheduling loop ends, by an interrupt or by an
\* error raised out of replay_loop, the monitor has been told to stop; and
\* once stop() was called the monitor stays stopped, starts no new poll
\* iteration and completes at most the one it was in.
C28_StopEndsMonitor ==
    [][ /\ pc' \in {"stopped", "crashed"} => StopCalled'
        /\ StopCalled =>
              /\ StopCalled'
              /\ mon_pc = "sleep" => mon_vars' = mon_vars
              /\ mon_pc' = "poll" => mon_pc = "poll"
              /\ polls_after_stop' <= 1 ]_vars

C28_Witness ==
    /\ StopCalled
    /\ polls_after_stop = 1
    /\ mon_pc = "sleep"
    /\ events # <<>>

\* the monitor's side of C29: the joined set and the fixed addresses' flags
MonitorShared == <<active_groups, group_flags>>

\* the engine's side of C29: counters, offsets, reorder buffer, the sets and
\* the list it took for the pass
EngineOwned ==
    <<loop_count, i, next_target_refresh, targets, target_list,
      current_targets, reorder_buffer, elapsed, stream_seq_offsets,
      total_packets_sent, total_packets_dropped, total_packets_reordered,
      packets_this_loop, dropped_this_loop, reordered_this_loop, pass_log>>

\* a step of the monitor thread
MonitorStep ==
    \/ mon_pc' # mon_pc
    \/ <<proc_net_igmp, active_groups, events, group_flags, flag_events,
         flag_reads>>' # <<proc_net_igmp, active_groups, events, group_flags,
                           flag_events, flag_reads>>

\* a step of the engine
EngineStep == pc' # pc \/ EngineOwned' # EngineOwned

\* C29: communication is one-way: no step of the engine (refresh, clearing
\* or replacing its current-target set, sending, delaying, flushing) changes
\* the monitor's joined set or the fixed addresses' flags, and no step of the
\* monitor changes the engine's counters, offsets, reorder buffer, target
\* sets or the target list it already took.
C29_OneWay ==
    [][ /\ EngineStep => MonitorShared' = MonitorShared
        /\ MonitorStep => EngineOwned' = EngineOwned ]_vars

\* C29 witness: in the middle of a pass with packets sent and one delayed,
\* the monitor has meanwhile stored an empty joined set; the engine still
\* holds the list and the set it took
C29_Witness ==
    /\ pc = "record"
    /\ mon_subnets # {}
    /\ total_packets_sent > 0
    /\ reorder_buffer # <<>>
    /\ active_groups = {}
    /\ events # <<>>
    /\ targets # {}
    /\ target_list # <<>>

\* the sendto calls this step added to the pass history
NewSends == SubSeq(pass_log', Len(pass_log) + 1, Len(pass_log'))

\* the entries of the buffer that are still in it after the step, in order
StillBuffered == SelectSeq(reorder_buffer, LAMBDA e : e \in Range(reorder_buffer'))

\* the entries the step put into the buffer
NewlyBuffered == SelectSeq(reorder_buffer', LAMBDA e : e \notin Range(reorder_buffer))

\* C30: within a pass a delayed packet is given a release time 1 ms to 10 ms
\* after the clock of its tick; at every tick exactly the buffer entries whose
\* release time has come are sent and removed, whatever is then decided for
\* the current record, and their sends come before the current record's; the
\* entries not yet due stay at the front of the buffer in their order; only
\* the flush that ends the pass sends an entry without regard to its time.
C30_ReleaseWhenDue ==
    [][ /\ (pc = "record" /\ i' = i + 1) =>
              /\ \A n \in 1..Len(reorder_buffer) :
                    LET e == reorder_buffer[n]
                    IN  IF elapsed' >= e.time
                        THEN /\ e \notin Range(reorder_buffer')
                             /\ \E m \in 1..Len(NewSends) :
                                   /\ NewSends[m].idx = e.idx
                                   /\ NewSends[m].via = "release"
                        ELSE /\ e \in Range(reorder_buffer')
                             /\ \A m \in 1..Len(NewSends) : NewSends[m].idx # e.idx
              /\ reorder_buffer' = StillBuffered \o NewlyBuffered
              /\ Len(NewlyBuffered) <= 1
              /\ \A n \in 1..Len(NewlyBuffered) :
                    /\ NewlyBuffered[n].idx = i
                    /\ NewlyBuffered[n].time - elapsed' \in DelayMin..DelayMax
              /\ \A m \in 1..Len(NewSends) :
                    /\ NewSends[m].via \in {"release", "direct"}
                    /\ NewSends[m].via = "direct" =>
                          /\ NewSends[m].idx = i
                          /\ \A k \in (m + 1)..Len(NewSends) : NewSends[k].via = "direct"
        /\ (\E m \in 1..Len(NewSends) : NewSends[m].via = "flush") =>
              pc = "flush" ]_vars

\* C30 witness: in one pass a delayed record has been released at a later
\* tick while another, not yet due, is still in the buffer
C30_Witness ==
    /\ pc = "record"
    /\ reorder_buffer # <<>>
    /\ \E m \in 1..Len(pass_log) :
          /\ pass_log[m].via = "release"
          /\ pass_log[m].idx < reorder_buffer[1].idx
    /\ reorder_buffer[1].time > elapsed

\* the scheduled time of record k of a pass, from the pass start, in ms
Scheduled(k) == (Packets[k + 1].timestamp - Packets[1].timestamp) \div speed

DirectAddrsInStep ==
    LET d == SelectSeq(NewSends, LAMBDA op : op.via = "direct")
    IN  [n \in 1..Len(d) |-> d[n].addr]

\* C32: within a pass the target list is the set read at pass start until
\* record index RefreshEvery (500 in the code) and is replaced only at refresh
\* checks spaced RefreshEvery records apart, by the joined set read there;
\* between two refreshes it stays as it is and every direct send goes to
\* exactly that list, so a join or leave in mid-pass takes effect at the next
\* refresh; no refresh is made before record index RefreshEvery.
C32_RefreshEveryInterval ==
    [][ /\ (pc = "check" /\ pc' = "record") =>
              /\ Range(target_list') = JoinedSet
              /\ next_target_refresh' = RefreshEvery
        /\ (pc = "record" /\ i' = i + 1) =>
              /\ IF i = next_target_refresh
                 THEN /\ i >= RefreshEvery
                      /\ i % RefreshEvery = 0
                      /\ Range(target_list') = JoinedSet
                      /\ next_target_refresh' = i + RefreshEvery
                 ELSE /\ i < next_target_refresh
                      /\ target_list' = target_list
                      /\ next_target_refresh' = next_target_refresh
              /\ DirectAddrsInStep \in {<<>>, target_list'} ]_vars

\* C32 witness: a group joined in mid-pass; the record before the refresh
\* went to the one target read at pass start, the record at the refresh to
\* both
C32_Witness ==
    /\ InPass
    /\ Len(record_fate) > RefreshEvery
    /\ record_fate[RefreshEvery] = Fate("sent", <<G1>>)
    /\ record_fate[RefreshEvery + 1].kind = "sent"
    /\ Len(record_fate[RefreshEvery + 1].targets) = 2
    /\ \E m \in 1..Len(pass_log) :
          /\ pass_log[m].idx = RefreshEvery
          /\ pass_log[m].addr = G2
          /\ pass_log[m].via = "direct"
    /\ \A m \in 1..Len(pass_log) :
          pass_log[m].idx < RefreshEvery => pass_log[m].addr = G1

\* C33: in standard (non-continuous) mode the per-port sequence offsets are
\* 0 for the whole run and every payload sent - directly, on release or at
\* the flush, in every pass - is byte for byte the captured payload.
C33_StandardModeUntouched ==
    (InRun /\ ~continuous) =>
        /\ \A p \in DOMAIN stream_seq_offsets : stream_seq_offsets[p] = 0
        /\ \A n \in 1..Len(pass_log) :
              pass_log[n].payload = Packets[pass_log[n].idx + 1].payload

\* C33 witness: a standard-mode run has released from the reorder buffer an
\* RTP record of a port whose capture holds RTP records
C33_Witness ==
    /\ InRun /\ ~continuous
    /\ \E n \in 1..Len(pass_log) :
          /\ pass_log[n].via = "release"
          /\ is_rtp_packet(pass_log[n].payload)
          /\ stream_rtp_counts[pass_log[n].port] > 0

\* the payload lengths of a sequence of sends, added up
RECURSIVE PayloadBytes(_)
PayloadBytes(ops) ==
    IF ops = <<>> THEN 0
    ELSE Len(ops[1].payload) + PayloadBytes(SubSeq(ops, 2, Len(ops)))

\* the session counters
SessionCounters ==
    <<total_packets_sent, total_packets_dropped, total_packets_reordered,
      total_bytes_sent, loop_count>>

\* C34: the session counters are cumulative and exact: no step - a pass end
\* and an idle period included - lowers or resets packets sent, dropped,
\* reordered, bytes sent or the loop count, and every step that leaves the
\* engine in its loop adds to packets sent the number of sends it made
\* (direct, released, flushed, one per destination) and to bytes sent the sum
\* of their payload lengths, so that at every pass boundary the totals are
\* those of all sends since the engine started.
C34_CountersCumulative ==
    [][ /\ \A n \in 1..Len(SessionCounters) : SessionCounters'[n] >= SessionCounters[n]
        /\ pc' \notin {"stopped", "crashed"} =>
              /\ total_packets_sent' = total_packets_sent + Len(NewSends)
              /\ total_bytes_sent' = total_bytes_sent + PayloadBytes(NewSends) ]_vars

\* C34 witness: the second pass of a run that delays records has ended; the
\* totals hold more than that pass alone
C34_Witness ==
    /\ pc = "check"
    /\ loop_count = 2
    /\ total_packets_reordered > num_packets
    /\ pass_log # <<>>
    /\ total_packets_sent > Len(pass_log)
    /\ total_bytes_sent > PayloadBytes(pass_log)

\* C35 (as claimed): every send counted in the cumulative total is also
\* counted in the interval counter behind the throughput report: a step that
\* leaves the engine in its loop adds the same number to both, and a step
\* that prints the report leaves in the interval counter the sends made
\* after it.  (Violated: releases from the reorder buffer and the flush add
\* to the total only.)
C35_IntervalCountsEverySend ==
    [][ pc' \notin {"stopped", "crashed"} =>
            IF stats_reports' = stats_reports + 1
            THEN interval_packets' = total_packets_sent' - total_packets_sent
            ELSE interval_packets' - interval_packets =
                    total_packets_sent' - total_packets_sent ]_vars

\* the records of the pass that were sent directly
DirectlySent(log) == {log[m].idx : m \in {n \in 1..Len(log) : log[n].via = "direct"}}

\* what a step did with record i, read off the counters, the buffer and the
\* pass history
DroppedInStep ==
    /\ dropped_this_loop' = dropped_this_loop + 1
    /\ total_packets_dropped' = total_packets_dropped + 1
DelayedInStep ==
    /\ reordered_this_loop' = reordered_this_loop + 1
    /\ total_packets_reordered' = total_packets_reordered + 1
    /\ \E n \in 1..Len(reorder_buffer') : reorder_buffer'[n].idx = i
SentDirectInStep == i \in DirectlySent(NewSends)

\* C36: in every pass each processed record meets exactly one fate - dropped,
\* delayed into the reorder buffer, or sent directly.  A dropped record is
\* neither buffered nor sent and causes no reorder draw (the loss decision
\* comes first: at loss rate 100 every record is dropped whatever the reorder
\* rate); a delayed record is not counted as dropped and is sent only from
\* the buffer; and when a pass has run to its last record, dropped + delayed
\* + directly sent records is the number of records of the capture.
C36_OneFatePerRecord ==
    [][ /\ (pc = "record" /\ i' = i + 1 /\ pc' \in {"record", "flush"}) =>
              /\ \/ DroppedInStep /\ ~DelayedInStep /\ ~SentDirectInStep
                 \/ ~DroppedInStep /\ DelayedInStep /\ ~SentDirectInStep
                 \/ ~DroppedInStep /\ ~DelayedInStep /\ SentDirectInStep
              /\ DroppedInStep =>
                    /\ reordered_this_loop' = reordered_this_loop
                    /\ drew_reorder' = drew_reorder
                    /\ \A n \in 1..Len(reorder_buffer') : reorder_buffer'[n].idx # i
                    /\ \A m \in 1..Len(NewSends) : NewSends[m].idx # i
              /\ DelayedInStep =>
                    /\ dropped_this_loop' = dropped_this_loop
                    /\ \A m \in 1..Len(NewSends) : NewSends[m].idx # i
              /\ SentDirectInStep =>
                    /\ dropped_this_loop' = dropped_this_loop
                    /\ reordered_this_loop' = reordered_this_loop
              /\ loss_rate = 100 => DroppedInStep
        /\ \A m \in 1..Len(NewSends) :
              NewSends[m].via \in {"release", "flush"} =>
                  \E n \in 1..Len(reorder_buffer) : reorder_buffer[n].idx = NewSends[m].idx
        /\ (pc' = "flush" /\ i' = num_packets) =>
              dropped_this_loop' + reordered_this_loop'
                + Cardinality(DirectlySent(pass_log')) = num_packets ]_vars

\* C36 witness: a pass with loss and reorder at 50 % has run to its last
\* record with records of all three fates
C36_Witness ==
    /\ pc = "flush"
    /\ i = num_packets
    /\ dropped_this_loop > 0
    /\ reordered_this_loop > 0
    /\ DirectlySent(pass_log) # {}
    /\ drew_loss /\ drew_reorder

\* the notes a poll emitted for address a
NotesFor(notes, a) == SelectSeq(notes, LAMBDA e : e[2] = a)

\* per table, the addresses it lists that lie in a subnet of Subnets
\* (evaluated once)
ListedIn ==
    [t \in KernelTables |->
        {a \in NoteAddrs : /\ t.readable
                           /\ ip_to_proc_format(a) \in t.rows
                           /\ \E sn \in Subnets : is_ip_in_subnet(a, sn)}]

\* address a is in the joined set that a poll computes from the table
Listed(table, a) == mon_subnets = Subnets /\ a \in ListedIn[table]

\* C37: for every address and every sequence of kernel snapshots, failed
\* polls included, the join and leave notes of the monitor alternate and
\* start with a join: a poll emits at most one note per address, a join only
\* if the address's last note was not a join, a leave only if it was a join,
\* and no note for an address that is listed, or missing, in this snapshot
\* as in the one before.  The last note of an address is followed for the
\* monitor running on its own: its polls do not depend on who started it.
C37_NotesAlternate ==
    [][ (mon_pc = "poll" /\ mon_pc' # "poll") =>
            \A a \in NoteAddrs :
                LET mine == NotesFor(events', a)
                IN  /\ Len(mine) <= 1
                    /\ \A n \in 1..Len(mine) :
                          /\ mine[n][1] \in {"join", "leave"}
                          /\ (unit = "monitor" /\ mine[n][1] = "join") =>
                                last_note[a] \in {"none", "leave"}
                          /\ (unit = "monitor" /\ mine[n][1] = "leave") =>
                                last_note[a] = "join"
                    /\ (Listed(proc_net_igmp, a) <=> Listed(proc_net_igmp', a)) =>
                          mine = <<>> ]_vars

\* C37 witness: G1 and G2 were joined together and both left; the last poll
\* found G1 again and noted its second join, G2's last note is its leave
C37_Witness ==
    /\ unit = "monitor"
    /\ last_note[G2] = "leave"
    /\ last_note[G1] = "join"
    /\ events = <<<<"join", G1>>>>
    /\ active_groups = {G1}
    /\ mon_pc = "sleep"

===========================================================================
